---- MODULE Spec2Model ----
(***************************************************************************)
(* Model of the O(log(n) + c) text CRDT CTextLogn (src/crdt/text_logn.ts)  *)
(* and of the AVL-based SplitAppendListManager it uses                     *)
(* (split_append_list.ts).                                                 *)
(*                                                                         *)
(* Node ids are strings compared with <; they are modelled as naturals     *)
(* with the root id "" as 0, the least id.  A SplitAppendListManager holds *)
(* at most one live Node object per value (_nodeByValue), so its heap is   *)
(* modelled as functions from values to values.                            *)
(***************************************************************************)
EXTENDS Integers, Sequences, FiniteSets, TLC

\* ------------------------------------------------------------------------
\* Bounds
\* ------------------------------------------------------------------------
MaxLocalOps == 3      \* messages replica 1 sends (Spec)
MaxPeerOps == 1       \* messages replica 2 sends (Spec)
MaxStr == 2           \* longest string of an insert call, longest delete run
MaxSingleNodes == 6   \* characters the single replica inserts (SpecSingle)
MaxSingleDeletes == 1 \* characters the single replica deletes (SpecSingle)
MaxBeyond == 1        \* how far outside its range a bad index lies (SpecErrors)
MaxErrOps == 3        \* messages replica 1 sends (SpecErrors)
MaxSalmValues == 5    \* values given to the managers (SpecSALM)
MaxSalmSplits == 2    \* split calls on the managers (SpecSALM)
MaxTyped == 5         \* characters typed at the end of the text (SpecTyping)
MaxLongOps == 4       \* messages replica 1 sends (SpecLong)
MaxLongPeerOps == 2   \* messages replica 2 sends (SpecLong)
MaxLongTotal == 5     \* messages sent in all (SpecLong)
MaxSenders == 3       \* senders of the benchmark (SpecMulti)
MaxRun == 4           \* characters one sender types (SpecMulti)
MaxMultiTotal == 5    \* messages sent in all (SpecMulti)

Replicas == {1, 2}

\* The character typed for the node that gets id.  The program only copies
\* value, so one character per id loses no behaviour, and it makes
\* toString() show the order of the nodes.
Alphabet ==
  <<"a", "b", "c", "d", "e", "f", "g", "h", "i", "j", "k", "l", "m", "n",
    "o", "p", "q", "r", "s", "t">>
CharOf(id) == Alphabet[id]

\* ------------------------------------------------------------------------
\* Sentinels
\* ------------------------------------------------------------------------
Nil == -1            \* null / undefined
Hang == -2           \* the loop does not terminate
OutOfBounds == -3    \* Error("index out of bounds")
InternalError == -4  \* Error("Internal error: ...") / TypeError
RootId == 0          \* the id "" of the root node

Max(a, b) == IF a > b THEN a ELSE b

\* ------------------------------------------------------------------------
\* SplitAppendListManager (AVL version)
\* A manager is a record [par, left, right, ht, st]: the bParent,
\* bLeftChild, bRightChild and bHeight fields of the node of each value,
\* and st = "ok" | "hang" | "error" for an operation that did not return.
\* ------------------------------------------------------------------------
SalmEmpty ==
  [par |-> <<>>, left |-> <<>>, right |-> <<>>, ht |-> <<>>, st |-> "ok"]

SalmHang(h) == [h EXCEPT !.st = "hang"]
SalmError(h) == [h EXCEPT !.st = "error"]

\* height(node)
height(h, n) == IF n = Nil THEN -1 ELSE h.ht[n]

\* Node.bF getter
salm_bF(h, n) == height(h, h.right[n]) - height(h, h.left[n])

\* createInternal: a new Node for value, replacing any node it had
createInternal(h, v) ==
  [h EXCEPT !.par = (v :> Nil) @@ @,
            !.left = (v :> Nil) @@ @,
            !.right = (v :> Nil) @@ @,
            !.ht = (v :> 0) @@ @]

create(h, v) == IF h.st # "ok" THEN h ELSE createInternal(h, v)

\* "if (t !== null) t.bParent = p"
salm_setParent(h, t, p) == IF t = Nil THEN h ELSE [h EXCEPT !.par[t] = p]

\* updateBHeight taking every node for a leaf
updateBHeight_leaf(h, n) == [h EXCEPT !.ht[n] = 0]

updateBHeight(h, n) ==
  IF h.left[n] = Nil /\ h.right[n] = Nil
  THEN [h EXCEPT !.ht[n] = 0]
  ELSE [h EXCEPT !.ht[n] =
          1 + Max(IF h.left[n] = Nil THEN 0 ELSE h.ht[h.left[n]],
                  IF h.right[n] = Nil THEN 0 ELSE h.ht[h.right[n]])]

\* The rotations return the new subtree root n together with the heap.
salm_rotate_Left(h, X) ==
  IF h.st # "ok" THEN [h |-> h, n |-> Nil]
  ELSE IF X = Nil \/ h.right[X] = Nil THEN [h |-> SalmError(h), n |-> Nil]
  ELSE LET Z == h.right[X]
           t23 == h.left[Z]
           h1 == salm_setParent([h EXCEPT !.right[X] = t23], t23, X)
           h2 == [h1 EXCEPT !.left[Z] = X, !.par[X] = Z]
       IN [h |-> updateBHeight(updateBHeight(h2, X), Z), n |-> Z]

salm_rotate_Right(h, X) ==
  IF h.st # "ok" THEN [h |-> h, n |-> Nil]
  ELSE IF X = Nil \/ h.left[X] = Nil THEN [h |-> SalmError(h), n |-> Nil]
  ELSE LET Z == h.left[X]
           t23 == h.right[Z]
           h1 == salm_setParent([h EXCEPT !.left[X] = t23], t23, X)
           h2 == [h1 EXCEPT !.right[Z] = X, !.par[X] = Z]
       IN [h |-> updateBHeight(updateBHeight(h2, X), Z), n |-> Z]

salm_rotate_RightLeft(h, X, Z) ==
  IF h.st # "ok" THEN [h |-> h, n |-> Nil]
  ELSE IF h.left[Z] = Nil THEN [h |-> SalmError(h), n |-> Nil]
  ELSE LET Y == h.left[Z]
           t3 == h.right[Y]
           h1 == salm_setParent([h EXCEPT !.left[Z] = t3], t3, Z)
           h2 == [h1 EXCEPT !.right[Y] = Z, !.par[Z] = Y]
           t2 == h2.left[Y]
           h3 == salm_setParent([h2 EXCEPT !.right[X] = t2], t2, X)
           h4 == [h3 EXCEPT !.left[Y] = X, !.par[X] = Y]
       IN [h |-> updateBHeight(updateBHeight(updateBHeight(h4, X), Z), Y),
           n |-> Y]

salm_rotate_LeftRight(h, X, Z) ==
  IF h.st # "ok" THEN [h |-> h, n |-> Nil]
  ELSE IF h.right[Z] = Nil THEN [h |-> SalmError(h), n |-> Nil]
  ELSE LET Y == h.right[Z]
           t3 == h.left[Y]
           h1 == salm_setParent([h EXCEPT !.right[Z] = t3], t3, Z)
           h2 == [h1 EXCEPT !.left[Y] = Z, !.par[Z] = Y]
           t2 == h2.right[Y]
           h3 == salm_setParent([h2 EXCEPT !.left[X] = t2], t2, X)
           h4 == [h3 EXCEPT !.right[Y] = X, !.par[X] = Y]
       IN [h |-> updateBHeight(updateBHeight(updateBHeight(h4, X), Z), Y),
           n |-> Y]

\* The tail of rebalance: N.bParent = G and G's child link.
salm_reattach(rot, G, X) ==
  LET h == rot.h
      N == rot.n
  IN IF h.st # "ok" THEN h
     ELSE LET h1 == [h EXCEPT !.par[N] = G]
          IN IF G = Nil THEN h1
             ELSE IF X = h1.left[G] THEN [h1 EXCEPT !.left[G] = N]
             ELSE [h1 EXCEPT !.right[G] = N]

\* rebalance(node): the for loop, one iteration per call; fuel bounds the
\* climb by the number of nodes, beyond which the loop is in a cycle.
RECURSIVE salm_rebalance(_, _, _)
salm_rebalance(h, Z, fuel) ==
  LET X == h.par[Z] IN
  IF X = Nil THEN h
  ELSE IF fuel = 0 THEN SalmHang(h)
  ELSE IF Z = h.right[X]
  THEN IF salm_bF(h, X) > 0
       THEN salm_reattach(IF salm_bF(h, Z) < 0
                          THEN salm_rotate_RightLeft(h, X, Z)
                          ELSE salm_rotate_Left(h, X),
                          h.par[X], X)
       ELSE IF salm_bF(h, X) < 0 THEN h
       ELSE salm_rebalance(h, X, fuel - 1)
  ELSE IF salm_bF(h, X) < 0
       THEN salm_reattach(IF salm_bF(h, Z) > 0
                          THEN salm_rotate_LeftRight(h, X, Z)
                          ELSE salm_rotate_Right(h, X),
                          h.par[X], X)
       ELSE IF salm_bF(h, X) > 0 THEN h
       ELSE salm_rebalance(h, X, fuel - 1)

Fuel(h) == Cardinality(DOMAIN h.par) + 1

\* "while (current.bParent !== null) current = current.bParent"
RECURSIVE salm_root(_, _, _)
salm_root(h, cur, fuel) ==
  IF h.par[cur] = Nil THEN cur
  ELSE IF fuel = 0 THEN Hang
  ELSE salm_root(h, h.par[cur], fuel - 1)

\* "while (current.bRightChild !== null) current = current.bRightChild"
RECURSIVE salm_rightmost(_, _, _)
salm_rightmost(h, cur, fuel) ==
  IF h.right[cur] = Nil THEN cur
  ELSE IF fuel = 0 THEN Hang
  ELSE salm_rightmost(h, h.right[cur], fuel - 1)

\* getEndNode(value): Nil for an unknown value (nodeByValue throws)
getEndNode(h, v) ==
  IF v \notin DOMAIN h.par THEN Nil
  ELSE LET root == salm_root(h, v, Fuel(h))
       IN IF root = Hang THEN Hang ELSE salm_rightmost(h, root, Fuel(h))

\* getEnd(value): the node's value is the node itself in this model
getEnd(h, v) == getEndNode(h, v)

\* append's "Update heights" loop
RECURSIVE salm_heights(_, _, _, _)
salm_heights(h, cur, heightFromNode, fuel) ==
  IF cur = Nil THEN h
  ELSE IF fuel = 0 THEN SalmHang(h)
  ELSE salm_heights([h EXCEPT !.ht[cur] = Max(@, heightFromNode)],
                    h.par[cur], heightFromNode + 1, fuel - 1)

\* append from "parent.bRightChild = node" on, h0 being the heap after
\* createInternal and parent the result of getEndNode
appendTo(h, h0, parent, v) ==
  LET Rebalance(h2) == IF h2.st # "ok" THEN h2
                       ELSE salm_rebalance(h2, v, Fuel(h2))
      Heights(h1) == Rebalance(salm_heights(h1, parent, 1, Fuel(h1)))
  IN IF parent = Hang THEN SalmHang(h)
     ELSE IF parent = Nil THEN SalmError(h)
     ELSE Heights([h0 EXCEPT !.right[parent] = v, !.par[v] = parent])

append(h, listEntry, v) ==
  IF h.st # "ok" THEN h
  ELSE appendTo(h, createInternal(h, v),
                getEndNode(createInternal(h, v), listEntry), v)

\* expose(node) is [l, k, r] = [h.left[node], node, h.right[node]]

\* nodeWithChildren(l, k, r)
nodeWithChildren(h, l, k, r) ==
  IF h.st # "ok" THEN [h |-> h, n |-> Nil]
  ELSE LET h0 == createInternal(h, k)
           h1 == salm_setParent([h0 EXCEPT !.left[k] = l], l, k)
           h2 == salm_setParent([h1 EXCEPT !.right[k] = r], r, k)
       IN [h |-> updateBHeight(h2, k), n |-> k]

RECURSIVE joinRightAVL(_, _, _, _)
joinRightAVL(h, TL, k, TR) ==
  IF h.st # "ok" THEN [h |-> h, n |-> Nil]
  ELSE
  LET l == h.left[TL]
      kprime == TL
      c == h.right[TL]
      \* rotate_Left(nodeWithChildren(l, kprime, rotate_Right(Tprime)))
      RotateLeft(nw) == salm_rotate_Left(nw.h, nw.n)
      WithRotated(rr) == RotateLeft(nodeWithChildren(rr.h, l, kprime, rr.n))
      \* "if (height(c) <= height(TR) + 1)" after Tprime is made
      Near(Tprime) ==
        IF height(Tprime.h, Tprime.n) <= height(Tprime.h, l) + 1
        THEN nodeWithChildren(Tprime.h, l, kprime, Tprime.n)
        ELSE WithRotated(salm_rotate_Right(Tprime.h, Tprime.n))
      \* the else branch after Tprime and Tprimeprime are made
      FarCheck(Tprimeprime, tprime) ==
        IF Tprimeprime.h.st # "ok" THEN Tprimeprime
        ELSE IF height(Tprimeprime.h, tprime) <= height(Tprimeprime.h, l) + 1
        THEN Tprimeprime
        ELSE salm_rotate_Left(Tprimeprime.h, Tprimeprime.n)
      Far(Tprime) ==
        FarCheck(nodeWithChildren(Tprime.h, l, kprime, Tprime.n), Tprime.n)
  IN IF height(h, c) <= height(h, TR) + 1
     THEN Near(nodeWithChildren(h, c, k, TR))
     ELSE Far(joinRightAVL(h, c, k, TR))

RECURSIVE joinLeftAVL(_, _, _, _)
joinLeftAVL(h, TL, k, TR) ==
  IF h.st # "ok" THEN [h |-> h, n |-> Nil]
  ELSE
  LET c == h.left[TR]
      kprime == TR
      r == h.right[TR]
      \* rotate_Right(nodeWithChildren(rotate_Left(Tprime), kprime, r))
      RotateRight(nw) == salm_rotate_Right(nw.h, nw.n)
      WithRotated(rl) == RotateRight(nodeWithChildren(rl.h, rl.n, kprime, r))
      \* "if (height(c) <= height(TL) + 1)" after Tprime is made
      Near(Tprime) ==
        IF height(Tprime.h, Tprime.n) <= height(Tprime.h, r) + 1
        THEN nodeWithChildren(Tprime.h, Tprime.n, kprime, r)
        ELSE WithRotated(salm_rotate_Left(Tprime.h, Tprime.n))
      \* the else branch after Tprime and Tprimeprime are made
      FarCheck(Tprimeprime, tprime) ==
        IF Tprimeprime.h.st # "ok" THEN Tprimeprime
        ELSE IF height(Tprimeprime.h, tprime) <= height(Tprimeprime.h, r) + 1
        THEN Tprimeprime
        ELSE salm_rotate_Right(Tprimeprime.h, Tprimeprime.n)
      Far(Tprime) ==
        FarCheck(nodeWithChildren(Tprime.h, Tprime.n, kprime, r), Tprime.n)
  IN IF height(h, c) <= height(h, TL) + 1
     THEN Near(nodeWithChildren(h, TL, k, c))
     ELSE Far(joinLeftAVL(h, TL, k, c))

join(h, TL, k, TR) ==
  IF h.st # "ok" THEN [h |-> h, n |-> Nil]
  ELSE IF height(h, TL) > height(h, TR) + 1 THEN joinRightAVL(h, TL, k, TR)
  ELSE IF height(h, TR) > height(h, TL) + 1 THEN joinLeftAVL(h, TL, k, TR)
  ELSE nodeWithChildren(h, TL, k, TR)

\* "Erase the old parents" of the base case of splitInternal
salm_erase(h, c) ==
  IF c # Nil /\ h.par[c] # Nil
  THEN LET p == h.par[c]
           h1 == IF h.left[p] = c THEN [h EXCEPT !.left[p] = Nil] ELSE h
       IN [h1 EXCEPT !.par[c] = Nil]
  ELSE h

\* splitInternal(T, path): [h, l, r], the roots of the two halves
RECURSIVE splitInternal(_, _, _)
splitInternal(h, T, path) ==
  IF h.st # "ok" THEN [h |-> h, l |-> Nil, r |-> Nil]
  ELSE
  LET L == h.left[T]
      m == T
      R == h.right[T]
  IN IF Len(path) = 0
     THEN [h |-> salm_erase(salm_erase(h, L), R), l |-> L, r |-> R]
     ELSE LET nextNode == path[Len(path)]
              rest == SubSeq(path, 1, Len(path) - 1)
              \* "return [Lprime, this.join(Rprime, m, R)]"
              LeftOf(j, Lprime) == [h |-> j.h, l |-> Lprime, r |-> j.n]
              GoLeft(sub) == LeftOf(join(sub.h, sub.r, m, R), sub.l)
              \* "return [this.join(L, m, Lprime), Rprime]"
              RightOf(j, Rprime) == [h |-> j.h, l |-> j.n, r |-> Rprime]
              GoRight(sub) == RightOf(join(sub.h, L, m, sub.l), sub.r)
          IN IF nextNode = L THEN GoLeft(splitInternal(h, L, rest))
             ELSE IF nextNode = R THEN GoRight(splitInternal(h, R, rest))
             ELSE [h |-> SalmError(h), l |-> Nil, r |-> Nil]

\* split's "Make path from node to its root": <<path, root>>, with
\* root = Hang when the climb does not end
RECURSIVE salm_path(_, _, _, _)
salm_path(h, cur, path, fuel) ==
  IF h.par[cur] = Nil THEN <<path, cur>>
  ELSE IF fuel = 0 THEN <<path, Hang>>
  ELSE salm_path(h, h.par[cur], Append(path, cur), fuel - 1)

split(h, v) ==
  IF h.st # "ok" THEN h
  ELSE IF v \notin DOMAIN h.par THEN SalmError(h)
  ELSE LET \* "Since both left and right exclude value, ..."
           Reappend(res) == IF res.h.st # "ok" THEN res.h
                            ELSE IF res.l # Nil THEN append(res.h, res.l, v)
                            ELSE create(res.h, v)
           Split(pr) == IF pr[2] = Hang THEN SalmHang(h)
                        ELSE Reappend(splitInternal(h, pr[2], pr[1]))
       IN Split(salm_path(h, v, <<>>, Fuel(h)))

\* ------------------------------------------------------------------------
\* SplitAppendListManager (array version)
\* A manager is a record [lists, listByValue]: lists holds the arrays in the
\* order they were allocated and listByValue[v] is the index in lists of the
\* array the Map holds for v, so that values sharing an array share an index.
\* ------------------------------------------------------------------------
arr_Init == [lists |-> <<>>, listByValue |-> <<>>]

\* create(value)
arr_create(a, v) ==
  [lists |-> Append(a.lists, <<v>>),
   listByValue |-> (v :> Len(a.lists) + 1) @@ a.listByValue]

\* append(listEntry, value): push on the shared array
arr_append(a, listEntry, v) ==
  LET list == a.listByValue[listEntry]
  IN [lists |-> [a.lists EXCEPT ![list] = Append(@, v)],
      listByValue |-> (v :> list) @@ a.listByValue]

\* getEnd(value): list[list.length - 1]
arr_getEnd(a, v) ==
  LET list == a.lists[a.listByValue[v]]
  IN list[Len(list)]

\* list.indexOf(value), counted from 1
arr_indexOf(list, v) ==
  CHOOSE i \in 1..Len(list) :
    list[i] = v /\ \A j \in 1..(i - 1) : list[j] # v

\* split(value): before and after are two new arrays
arr_split(a, v) ==
  LET list == a.lists[a.listByValue[v]]
      valueIndex == arr_indexOf(list, v)
      before == SubSeq(list, 1, valueIndex)
      after == SubSeq(list, valueIndex + 1, Len(list))
      n == Len(a.lists)
  IN [lists |-> a.lists \o <<before, after>>,
      listByValue |->
        [w \in DOMAIN a.listByValue |->
           IF \E i \in 1..Len(after) : after[i] = w THEN n + 2
           ELSE IF \E i \in 1..Len(before) : before[i] = w THEN n + 1
           ELSE a.listByValue[w]]]

\* ------------------------------------------------------------------------
\* CTextLogn: one replica's state is a record
\*   nodes                       the keys of nodesByID
\*   parent, isLeftChild, value, isPresent, leftChildren, rightChildren
\*                               the Node fields of the interleaving tree
\*   bParent, bLeftChild, bRightChild, bF, bCount, bRootNode
\*                               the balanced index
\*   leftSALM, rightSALM         the two managers
\*   status                      "ok", or "hung" / "error" once a handler
\*                               did not return
\*   lastRotation                which rotate_* the last insert handler
\*                               called ("none" if none)
\* ------------------------------------------------------------------------
InitReplica ==
  [nodes |-> {RootId},
   parent |-> (RootId :> Nil),
   isLeftChild |-> (RootId :> FALSE),
   value |-> (RootId :> ""),
   isPresent |-> (RootId :> FALSE),
   leftChildren |-> (RootId :> <<>>),
   rightChildren |-> (RootId :> <<>>),
   bParent |-> (RootId :> Nil),
   bLeftChild |-> (RootId :> Nil),
   bRightChild |-> (RootId :> Nil),
   bF |-> (RootId :> 0),
   bCount |-> (RootId :> 0),
   bRootNode |-> RootId,
   leftSALM |-> create(SalmEmpty, RootId),
   rightSALM |-> create(SalmEmpty, RootId),
   status |-> "ok",
   lastRotation |-> "none"]

NodeFuel(s) == Cardinality(s.nodes) + 1

\* "x?.bCount ?? 0"
bCountOf(s, n) == IF n = Nil THEN 0 ELSE s.bCount[n]

\* Node.bIsLeftChild
bIsLeftChild(s, n) == s.bParent[n] # Nil /\ s.bLeftChild[s.bParent[n]] = n

\* updateBCount without the node's own "(node.isPresent ? 1 : 0)"
updateBCount_noSelf(s, n) ==
  [s EXCEPT !.bCount[n] = bCountOf(s, s.bLeftChild[n])
                          + bCountOf(s, s.bRightChild[n])]

updateBCount(s, n) ==
  [s EXCEPT !.bCount[n] = bCountOf(s, s.bLeftChild[n])
                          + (IF s.isPresent[n] THEN 1 ELSE 0)
                          + bCountOf(s, s.bRightChild[n])]

\* "if (t !== null) t.bParent = p"
setBParent(s, t, p) == IF t = Nil THEN s ELSE [s EXCEPT !.bParent[t] = p]

rotate_Left(s, X, Z) ==
  LET t23 == s.bLeftChild[Z]
      s1 == setBParent([s EXCEPT !.bRightChild[X] = t23], t23, X)
      s2 == [s1 EXCEPT !.bLeftChild[Z] = X, !.bParent[X] = Z]
      s3 == IF s2.bF[Z] = 0
            THEN [s2 EXCEPT !.bF[X] = 1, !.bF[Z] = -1]
            ELSE [s2 EXCEPT !.bF[X] = 0, !.bF[Z] = 0]
      s4 == [s3 EXCEPT !.lastRotation = "Left"]
  IN [s |-> updateBCount(updateBCount(s4, X), Z), n |-> Z]

rotate_Right(s, X, Z) ==
  LET t23 == s.bRightChild[Z]
      s1 == setBParent([s EXCEPT !.bLeftChild[X] = t23], t23, X)
      s2 == [s1 EXCEPT !.bRightChild[Z] = X, !.bParent[X] = Z]
      s3 == IF s2.bF[Z] = 0
            THEN [s2 EXCEPT !.bF[X] = 1, !.bF[Z] = -1]
            ELSE [s2 EXCEPT !.bF[X] = 0, !.bF[Z] = 0]
      s4 == [s3 EXCEPT !.lastRotation = "Right"]
  IN [s |-> updateBCount(updateBCount(s4, X), Z), n |-> Z]

\* The balance factors both double rotations assign (the same code in both)
doubleRotationBF(s, X, Y, Z) ==
  LET s1 == IF s.bF[Y] = 0 THEN [s EXCEPT !.bF[X] = 0, !.bF[Z] = 0]
            ELSE IF s.bF[Y] > 0 THEN [s EXCEPT !.bF[X] = -1, !.bF[Z] = 0]
            ELSE [s EXCEPT !.bF[X] = 0, !.bF[Z] = 1]
  IN [s1 EXCEPT !.bF[Y] = 0]

rotate_RightLeft(s, X, Z) ==
  IF s.bLeftChild[Z] = Nil THEN [s |-> [s EXCEPT !.status = "error"], n |-> Nil]
  ELSE
  LET Y == s.bLeftChild[Z]
      t3 == s.bRightChild[Y]
      s1 == setBParent([s EXCEPT !.bLeftChild[Z] = t3], t3, Z)
      s2 == [s1 EXCEPT !.bRightChild[Y] = Z, !.bParent[Z] = Y]
      t2 == s2.bLeftChild[Y]
      s3 == setBParent([s2 EXCEPT !.bRightChild[X] = t2], t2, X)
      s4 == [s3 EXCEPT !.bLeftChild[Y] = X, !.bParent[X] = Y]
      s5 == [doubleRotationBF(s4, X, Y, Z) EXCEPT !.lastRotation = "RightLeft"]
  IN [s |-> updateBCount(updateBCount(updateBCount(s5, X), Z), Y), n |-> Y]

rotate_LeftRight(s, X, Z) ==
  IF s.bRightChild[Z] = Nil THEN [s |-> [s EXCEPT !.status = "error"], n |-> Nil]
  ELSE
  LET Y == s.bRightChild[Z]
      t3 == s.bLeftChild[Y]
      s1 == setBParent([s EXCEPT !.bRightChild[Z] = t3], t3, Z)
      s2 == [s1 EXCEPT !.bLeftChild[Y] = Z, !.bParent[Z] = Y]
      t2 == s2.bRightChild[Y]
      s3 == setBParent([s2 EXCEPT !.bLeftChild[X] = t2], t2, X)
      s4 == [s3 EXCEPT !.bRightChild[Y] = X, !.bParent[X] = Y]
      s5 == [doubleRotationBF(s4, X, Y, Z) EXCEPT !.lastRotation = "LeftRight"]
  IN [s |-> updateBCount(updateBCount(updateBCount(s5, X), Z), Y), n |-> Y]

\* The tail of rebalance without "N.bParent = G"
reattach_keepParent(rot, G, X) ==
  LET s == rot.s
      N == rot.n
  IN IF s.status # "ok" THEN s
     ELSE IF G = Nil THEN [s EXCEPT !.bRootNode = N]
     ELSE IF X = s.bLeftChild[G] THEN [s EXCEPT !.bLeftChild[G] = N]
     ELSE [s EXCEPT !.bRightChild[G] = N]

\* The tail of rebalance: N.bParent = G, G's child link or bRootNode
reattach(rot, G, X) ==
  LET s == rot.s
      N == rot.n
  IN IF s.status # "ok" THEN s
     ELSE LET s1 == [s EXCEPT !.bParent[N] = G]
          IN IF G = Nil THEN [s1 EXCEPT !.bRootNode = N]
             ELSE IF X = s1.bLeftChild[G] THEN [s1 EXCEPT !.bLeftChild[G] = N]
             ELSE [s1 EXCEPT !.bRightChild[G] = N]

\* rebalance(node) that leaves the index as the attach made it
rebalance_noRotation(s, Z, fuel) == s

\* rebalance(node): the for loop, one iteration per call
RECURSIVE rebalance(_, _, _)
rebalance(s, Z, fuel) ==
  LET X == s.bParent[Z] IN
  IF X = Nil THEN s
  ELSE IF fuel = 0 THEN [s EXCEPT !.status = "hung"]
  ELSE IF Z = s.bRightChild[X]
  THEN IF s.bF[X] > 0
       THEN reattach(IF s.bF[Z] < 0 THEN rotate_RightLeft(s, X, Z)
                     ELSE rotate_Left(s, X, Z),
                     s.bParent[X], X)
       ELSE IF s.bF[X] < 0 THEN [s EXCEPT !.bF[X] = 0]
       ELSE rebalance([s EXCEPT !.bF[X] = 1], X, fuel - 1)
  ELSE IF s.bF[X] < 0
       THEN reattach(IF s.bF[Z] > 0 THEN rotate_LeftRight(s, X, Z)
                     ELSE rotate_Right(s, X, Z),
                     s.bParent[X], X)
       ELSE IF s.bF[X] > 0 THEN [s EXCEPT !.bF[X] = 0]
       ELSE rebalance([s EXCEPT !.bF[X] = -1], X, fuel - 1)

\* get length() reading rootNode.bCount, as the tree-only version does
length_rootNode(s) == s.bCount[RootId]

\* get length()
length(s) == s.bCount[s.bRootNode]

\* indexToNode's loop going left on "remaining <= child.bCount"
RECURSIVE indexToNodeLoop_lessEqual(_, _, _)
indexToNodeLoop_lessEqual(s, current, remaining) ==
  LET child == s.bLeftChild[current]
      goLeft == child # Nil /\ remaining <= s.bCount[child]
      rem1 == IF child # Nil THEN remaining - s.bCount[child] ELSE remaining
      found == s.isPresent[current] /\ rem1 = 0
      rem2 == IF s.isPresent[current] THEN rem1 - 1 ELSE rem1
  IN IF goLeft THEN indexToNodeLoop_lessEqual(s, child, remaining)
     ELSE IF found THEN current
     ELSE IF s.bRightChild[current] = Nil
               \/ s.bCount[s.bRightChild[current]] < rem2
     THEN InternalError
     ELSE indexToNodeLoop_lessEqual(s, s.bRightChild[current], rem2)

\* indexToNode(index): the for (;;) loop, one iteration per call
RECURSIVE indexToNodeLoop(_, _, _)
indexToNodeLoop(s, current, remaining) ==
  LET child == s.bLeftChild[current]
      goLeft == child # Nil /\ remaining < s.bCount[child]
      rem1 == IF child # Nil THEN remaining - s.bCount[child] ELSE remaining
      found == s.isPresent[current] /\ rem1 = 0
      rem2 == IF s.isPresent[current] THEN rem1 - 1 ELSE rem1
  IN IF goLeft THEN indexToNodeLoop(s, child, remaining)
     ELSE IF found THEN current
     ELSE IF s.bRightChild[current] = Nil
               \/ s.bCount[s.bRightChild[current]] < rem2
     THEN InternalError
     ELSE indexToNodeLoop(s, s.bRightChild[current], rem2)

\* indexToNode with the check "index > this.length"
indexToNode_offByOne(s, index) ==
  IF index < 0 \/ index > length(s) THEN OutOfBounds
  ELSE indexToNodeLoop(s, s.bRootNode, index)

indexToNode(s, index) ==
  IF index < 0 \/ index >= length(s) THEN OutOfBounds
  ELSE indexToNodeLoop(s, s.bRootNode, index)

\* nodeToIndex's loop without "if (curParent.isPresent) geIndex++"
RECURSIVE nodeToIndexLoop_skipParent(_, _, _, _)
nodeToIndexLoop_skipParent(s, curNode, geIndex, fuel) ==
  LET curParent == s.bParent[curNode] IN
  IF curParent = Nil THEN geIndex
  ELSE IF fuel = 0 THEN Hang
  ELSE nodeToIndexLoop_skipParent(s, curParent,
         IF ~bIsLeftChild(s, curNode)
         THEN geIndex + bCountOf(s, s.bLeftChild[curParent])
         ELSE geIndex,
         fuel - 1)

\* nodeToIndex(node): the while loop; the result is <<geIndex, isPresent>>
RECURSIVE nodeToIndexLoop(_, _, _, _)
nodeToIndexLoop(s, curNode, geIndex, fuel) ==
  LET curParent == s.bParent[curNode] IN
  IF curParent = Nil THEN geIndex
  ELSE IF fuel = 0 THEN Hang
  ELSE nodeToIndexLoop(s, curParent,
         IF ~bIsLeftChild(s, curNode)
         THEN geIndex + bCountOf(s, s.bLeftChild[curParent])
                      + (IF s.isPresent[curParent] THEN 1 ELSE 0)
         ELSE geIndex,
         fuel - 1)

\* nodeToIndex starting from 0 instead of node's left subtree count
nodeToIndex_noLeftSubtree(s, node) ==
  <<nodeToIndexLoop(s, node, 0, NodeFuel(s)), s.isPresent[node]>>

nodeToIndex(s, node) ==
  <<nodeToIndexLoop(s, node, bCountOf(s, s.bLeftChild[node]), NodeFuel(s)),
    s.isPresent[node]>>

RECURSIVE bLeftmost(_, _, _)
bLeftmost(s, cur, fuel) ==
  IF s.bLeftChild[cur] = Nil THEN cur
  ELSE IF fuel = 0 THEN Hang
  ELSE bLeftmost(s, s.bLeftChild[cur], fuel - 1)

RECURSIVE bRightmost(_, _, _)
bRightmost(s, cur, fuel) ==
  IF s.bRightChild[cur] = Nil THEN cur
  ELSE IF fuel = 0 THEN Hang
  ELSE bRightmost(s, s.bRightChild[cur], fuel - 1)

\* nextNode's upward loop; InternalError is Error("node is last")
RECURSIVE nextNodeUp(_, _, _)
nextNodeUp(s, current, fuel) ==
  IF bIsLeftChild(s, current) THEN s.bParent[current]
  ELSE IF s.bParent[current] = Nil THEN InternalError
  ELSE IF fuel = 0 THEN Hang
  ELSE nextNodeUp(s, s.bParent[current], fuel - 1)

\* nextNode without the descent to the leftmost node of the right subtree
nextNode_noDescent(s, node) ==
  IF s.bRightChild[node] # Nil THEN s.bRightChild[node]
  ELSE nextNodeUp(s, node, NodeFuel(s))

nextNode(s, node) ==
  IF s.bRightChild[node] # Nil
  THEN bLeftmost(s, s.bRightChild[node], NodeFuel(s))
  ELSE nextNodeUp(s, node, NodeFuel(s))

\* toString(): the walk of the balanced tree, one loop iteration per call.
\* lastWalked is "PARENT", "LEFT_CHILD" or "RIGHT_CHILD"; values collects
\* the pushed characters.
RECURSIVE toStringWalk(_, _, _, _, _)
toStringWalk(s, node, lastWalked, values, fuel) ==
  IF node = Nil THEN values
  ELSE IF fuel = 0 THEN <<Hang>>
  ELSE IF lastWalked = "PARENT"
  THEN IF s.bLeftChild[node] # Nil /\ s.bCount[s.bLeftChild[node]] # 0
       THEN toStringWalk(s, s.bLeftChild[node], "PARENT", values, fuel - 1)
       ELSE toStringWalk(s, node, "LEFT_CHILD", values, fuel - 1)
  ELSE IF lastWalked = "LEFT_CHILD"
  THEN LET v1 == IF s.isPresent[node] THEN Append(values, s.value[node])
                 ELSE values
       IN IF s.bRightChild[node] # Nil /\ s.bCount[s.bRightChild[node]] # 0
          THEN toStringWalk(s, s.bRightChild[node], "PARENT", v1, fuel - 1)
          ELSE toStringWalk(s, node, "RIGHT_CHILD", v1, fuel - 1)
  ELSE toStringWalk(s, s.bParent[node],
                    IF bIsLeftChild(s, node) THEN "LEFT_CHILD"
                    ELSE "RIGHT_CHILD",
                    values, fuel - 1)

\* toString(): a sequence of characters, or <<InternalError>> for
\* Error("Internal error: toString() has wrong length")
toString(s) ==
  LET ans == toStringWalk(s, s.bRootNode, "PARENT", <<>>, 3 * NodeFuel(s))
  IN IF Len(ans) # length(s) THEN <<InternalError>> ELSE ans

\* getPosition(index): the id, or the error of indexToNode
getPosition(s, index) == indexToNode(s, index)

\* findPosition that treats a deleted node as an unknown id
findPosition_deletedUnknown(s, position) ==
  IF position \notin s.nodes \/ ~s.isPresent[position]
  THEN <<InternalError, FALSE>>
  ELSE nodeToIndex(s, position)

\* findPosition(position): InternalError for an unknown id (TypeError)
findPosition(s, position) ==
  IF position \notin s.nodes THEN <<InternalError, FALSE>>
  ELSE nodeToIndex(s, position)

\* ------------------------------------------------------------------------
\* receivePrimitive
\* A message is a record [type, id, parentID, isLeftChild, value, sender,
\* deps]: the NetworkMessage fields, and the runtime's causal metadata
\* (sender and the keys of the messages the sender had received).
\* ------------------------------------------------------------------------
Key(m) == <<m.type, m.id, m.sender>>

InsertEvent(startIndex) ==
  [type |-> "Insert", startIndex |-> startIndex, count |-> 1,
   deletedValues |-> ""]

DeleteEvent(startIndex, deletedValues) ==
  [type |-> "Delete", startIndex |-> startIndex, count |-> 1,
   deletedValues |-> deletedValues]

\* The sibling loop without the id comparison: siblings in arrival order
siblingIndex_arrival(siblings, id, i) == Len(siblings)

\* The sibling loop with the comparison reversed: "node.id > siblings[i].id"
RECURSIVE siblingIndex_descending(_, _, _)
siblingIndex_descending(siblings, id, i) ==
  IF i < Len(siblings) /\ ~(id > siblings[i + 1])
  THEN siblingIndex_descending(siblings, id, i + 1)
  ELSE i

\* "for (; i < siblings.length; i++) if (node.id < siblings[i].id) break;"
\* the 0-based index-to-be of id among siblings
RECURSIVE siblingIndex(_, _, _)
siblingIndex(siblings, id, i) ==
  IF i < Len(siblings) /\ ~(id < siblings[i + 1])
  THEN siblingIndex(siblings, id, i + 1)
  ELSE i

\* siblings.push(node) in place of the splice
splice_push(siblings, i, node) == Append(siblings, node)

\* siblings.splice(i, 0, node)
splice(siblings, i, node) ==
  SubSeq(siblings, 1, i) \o <<node>> \o SubSeq(siblings, i + 1, Len(siblings))

\* getNeighbor(node, siblings, i): <<predecessor, successor>>; an entry
\* is Hang when getEnd does not return
getNeighbor(s, node, siblings, i) ==
  IF s.isLeftChild[node]
  THEN IF i = Len(siblings) - 1 THEN <<Nil, s.parent[node]>>
       ELSE <<Nil, getEnd(s.leftSALM, siblings[i + 2])>>
  ELSE IF i = 0 THEN <<s.parent[node], Nil>>
       ELSE <<getEnd(s.rightSALM, siblings[i]), Nil>>

\* "Insert into balanced tree." descending on the wrong side below the
\* neighbour: bRightChild under a predecessor, bLeftChild under a successor
insertIntoBalanced_wrongSide(s, node, predecessor, successor) ==
  IF predecessor # Nil
  THEN IF s.bRightChild[predecessor] = Nil
       THEN [s EXCEPT !.bRightChild[predecessor] = node,
                      !.bParent[node] = predecessor]
       ELSE LET current == bRightmost(s, s.bRightChild[predecessor],
                                       NodeFuel(s))
            IN [s EXCEPT !.bRightChild[current] = node,
                         !.bParent[node] = current]
  ELSE IF successor # Nil
  THEN IF s.bLeftChild[successor] = Nil
       THEN [s EXCEPT !.bLeftChild[successor] = node,
                      !.bParent[node] = successor]
       ELSE LET current == bLeftmost(s, s.bLeftChild[successor],
                                      NodeFuel(s))
            IN [s EXCEPT !.bLeftChild[current] = node,
                         !.bParent[node] = current]
  ELSE s

\* "Insert into balanced tree."
insertIntoBalanced(s, node, predecessor, successor) ==
  IF predecessor # Nil
  THEN IF s.bRightChild[predecessor] = Nil
       THEN [s EXCEPT !.bRightChild[predecessor] = node,
                      !.bParent[node] = predecessor]
       ELSE LET current == bLeftmost(s, s.bRightChild[predecessor],
                                      NodeFuel(s))
            IN [s EXCEPT !.bLeftChild[current] = node,
                         !.bParent[node] = current]
  ELSE IF successor # Nil
  THEN IF s.bLeftChild[successor] = Nil
       THEN [s EXCEPT !.bLeftChild[successor] = node,
                      !.bParent[node] = successor]
       ELSE LET current == bRightmost(s, s.bLeftChild[successor],
                                       NodeFuel(s))
            IN [s EXCEPT !.bRightChild[current] = node,
                         !.bParent[node] = current]
  ELSE s

\* "Update index metadata." without the climb: bCount += delta on the node
addBCount_noClimb(s, ancestor, delta, fuel) ==
  IF ancestor = Nil THEN s ELSE [s EXCEPT !.bCount[ancestor] = @ + delta]

\* "Update index metadata.": bCount += delta on node and its bAncestors
RECURSIVE addBCount(_, _, _, _)
addBCount(s, ancestor, delta, fuel) ==
  IF ancestor = Nil THEN s
  ELSE IF fuel = 0 THEN [s EXCEPT !.status = "hung"]
  ELSE addBCount([s EXCEPT !.bCount[ancestor] = @ + delta],
                 s.bParent[ancestor], delta, fuel - 1)

\* "Update SALMS." without the split of the parent's list
updateSALMs_noSplit(s, node, parent, siblings, i) ==
  IF s.isLeftChild[node]
  THEN [s EXCEPT
          !.leftSALM = IF i = 0 THEN append(@, parent, node)
                       ELSE create(@, node),
          !.rightSALM = create(@, node)]
  ELSE [s EXCEPT
          !.rightSALM = IF i = Len(siblings) - 1 THEN append(@, parent, node)
                        ELSE create(@, node),
          !.leftSALM = create(@, node)]

\* "Update SALMS."
updateSALMs(s, node, parent, siblings, i) ==
  IF s.isLeftChild[node]
  THEN [s EXCEPT
          !.leftSALM =
             IF i = 0
             THEN append(IF Len(siblings) >= 2 THEN split(@, parent) ELSE @,
                         parent, node)
             ELSE create(@, node),
          !.rightSALM = create(@, node)]
  ELSE [s EXCEPT
          !.rightSALM =
             IF i = Len(siblings) - 1
             THEN append(IF Len(siblings) >= 2 THEN split(@, parent) ELSE @,
                         parent, node)
             ELSE create(@, node),
          !.leftSALM = create(@, node)]

\* The state in which a handler that did not return leaves the replica:
\* nothing reads the state of a replica again once status is not "ok",
\* so it keeps the state before the message.
Stuck(s, how) == [s EXCEPT !.status = how]

SalmStatus(s) ==
  IF s.leftSALM.st = "hang" \/ s.rightSALM.st = "hang" THEN "hung"
  ELSE IF s.leftSALM.st = "error" \/ s.rightSALM.st = "error" THEN "error"
  ELSE "ok"

\* case "insert": [s, events]
receiveInsert(s, m) ==
  IF m.parentID \notin s.nodes
  THEN \* nodesByID.set runs before parent.leftChildren throws
       [s |-> [s EXCEPT !.status = "error",
                        !.nodes = @ \cup {m.id},
                        !.parent = (m.id :> Nil) @@ @,
                        !.isLeftChild = (m.id :> m.isLeftChild) @@ @,
                        !.value = (m.id :> m.value) @@ @,
                        !.isPresent = (m.id :> TRUE) @@ @,
                        !.leftChildren = (m.id :> <<>>) @@ @,
                        !.rightChildren = (m.id :> <<>>) @@ @,
                        !.bParent = (m.id :> Nil) @@ @,
                        !.bLeftChild = (m.id :> Nil) @@ @,
                        !.bRightChild = (m.id :> Nil) @@ @,
                        !.bF = (m.id :> 0) @@ @,
                        !.bCount = (m.id :> 0) @@ @],
        events |-> <<>>]
  ELSE
  LET node == m.id
      parent == m.parentID
      old == IF m.isLeftChild THEN s.leftChildren[parent]
             ELSE s.rightChildren[parent]
      i == siblingIndex(old, node, 0)
      siblings == splice(old, i, node)
      s1 == [s EXCEPT !.lastRotation = "none",
                      !.nodes = @ \cup {node},
                      !.parent = (node :> parent) @@ @,
                      !.isLeftChild = (node :> m.isLeftChild) @@ @,
                      !.value = (node :> m.value) @@ @,
                      !.isPresent = (node :> TRUE) @@ @,
                      !.leftChildren =
                         (node :> <<>>) @@
                         (IF m.isLeftChild THEN [@ EXCEPT ![parent] = siblings]
                          ELSE @),
                      !.rightChildren =
                         (node :> <<>>) @@
                         (IF m.isLeftChild THEN @
                          ELSE [@ EXCEPT ![parent] = siblings]),
                      !.bParent = (node :> Nil) @@ @,
                      !.bLeftChild = (node :> Nil) @@ @,
                      !.bRightChild = (node :> Nil) @@ @,
                      !.bF = (node :> 0) @@ @,
                      !.bCount = (node :> 0) @@ @]
      \* The steps of the handler, last first; each takes the state the
      \* step before it left.
      \* "Event."
      Emit(s5) ==
        IF s5.status # "ok" THEN [s |-> Stuck(s, s5.status), events |-> <<>>]
        ELSE IF SalmStatus(s5) # "ok"
        THEN [s |-> Stuck(s, SalmStatus(s5)), events |-> <<>>]
        ELSE [s |-> s5,
              events |-> <<InsertEvent(nodeToIndex(s5, node)[1])>>]
      \* "Update SALMS."
      Salms(s4) ==
        Emit(IF s4.status = "ok"
             THEN updateSALMs(s4, node, parent, siblings, i) ELSE s4)
      \* "Rebalance AVL tree."
      Rebalance(s3) ==
        Salms(IF s3.status = "ok" THEN rebalance(s3, node, NodeFuel(s3))
              ELSE s3)
      \* "Update index metadata."
      Count(s2) == Rebalance(addBCount(s2, node, 1, NodeFuel(s2)))
      \* "Insert into balanced tree."
      Attach(nb) ==
        IF nb[1] = Hang \/ nb[2] = Hang
        THEN [s |-> Stuck(s, "hung"), events |-> <<>>]
        ELSE Count(insertIntoBalanced(s1, node, nb[1], nb[2]))
  IN Attach(getNeighbor(s1, node, siblings, i))

\* case "delete" that also drops the node from nodesByID
receiveDelete_forget(s, m) ==
  IF m.id \notin s.nodes
  THEN [s |-> Stuck(s, "error"), events |-> <<>>]
  ELSE
  LET node == m.id IN
  IF s.isPresent[node]
  THEN LET index == nodeToIndex(s, node)[1]
           s1 == [s EXCEPT !.isPresent[node] = FALSE]
           s2 == addBCount(s1, node, -1, NodeFuel(s1))
       IN IF s2.status # "ok" THEN [s |-> Stuck(s, s2.status),
                                     events |-> <<>>]
          ELSE [s |-> [s2 EXCEPT !.nodes = @ \ {node}],
                events |-> <<DeleteEvent(index, s.value[node])>>]
  ELSE [s |-> s, events |-> <<>>]

\* case "delete" without "if (node.isPresent)"
receiveDelete_noPresentCheck(s, m) ==
  IF m.id \notin s.nodes
  THEN [s |-> Stuck(s, "error"), events |-> <<>>]
  ELSE
  LET node == m.id
      index == nodeToIndex(s, node)[1]
      s1 == [s EXCEPT !.isPresent[node] = FALSE]
      s2 == addBCount(s1, node, -1, NodeFuel(s1))
  IN IF s2.status # "ok" THEN [s |-> Stuck(s, s2.status), events |-> <<>>]
     ELSE [s |-> s2, events |-> <<DeleteEvent(index, s.value[node])>>]

\* case "delete" where a delete of a deleted node brings it back
receiveDelete_restore(s, m) ==
  IF m.id \notin s.nodes
  THEN [s |-> Stuck(s, "error"), events |-> <<>>]
  ELSE
  LET node == m.id
      index == nodeToIndex(s, node)[1]
      s1 == [s EXCEPT !.isPresent[node] = ~@]
      s2 == addBCount(s1, node, IF s.isPresent[node] THEN -1 ELSE 1,
                      NodeFuel(s1))
  IN IF s2.status # "ok" THEN [s |-> Stuck(s, s2.status), events |-> <<>>]
     ELSE [s |-> s2,
           events |-> IF s.isPresent[node]
                      THEN <<DeleteEvent(index, s.value[node])>> ELSE <<>>]

\* case "delete": [s, events]
receiveDelete(s, m) ==
  IF m.id \notin s.nodes
  THEN [s |-> Stuck(s, "error"), events |-> <<>>]
  ELSE
  LET node == m.id IN
  IF s.isPresent[node]
  THEN LET index == nodeToIndex(s, node)[1]
           s1 == [s EXCEPT !.isPresent[node] = FALSE]
           s2 == addBCount(s1, node, -1, NodeFuel(s1))
       IN IF s2.status # "ok" THEN [s |-> Stuck(s, s2.status),
                                     events |-> <<>>]
          ELSE [s |-> s2, events |-> <<DeleteEvent(index, s.value[node])>>]
  ELSE [s |-> s, events |-> <<>>]

\* receivePrimitive that ignores a message naming an id it does not know
receivePrimitive_dropUnknown(s, m) ==
  IF m.type = "insert"
  THEN IF m.parentID \notin s.nodes THEN [s |-> s, events |-> <<>>]
       ELSE receiveInsert(s, m)
  ELSE IF m.id \notin s.nodes THEN [s |-> s, events |-> <<>>]
       ELSE receiveDelete(s, m)

receivePrimitive(s, m) ==
  IF m.type = "insert" THEN receiveInsert(s, m) ELSE receiveDelete(s, m)

\* insertOne that always makes the new node a right child of leftOrigin
insertOne_rightOfOrigin(s, index, char, uid, sender, deps) ==
  LET leftOrigin == IF index = 0 THEN RootId
                    ELSE indexToNode(s, index - 1)
  IN [type |-> IF leftOrigin < 0 THEN "error" ELSE "insert",
      id |-> uid, parentID |-> leftOrigin, isLeftChild |-> FALSE,
      value |-> char, sender |-> sender, deps |-> deps]

\* insertOne that anchors at leftOrigin's first right child instead of
\* nextNode(leftOrigin)
insertOne_firstRightChild(s, index, char, uid, sender, deps) ==
  LET leftOrigin == IF index = 0 THEN RootId
                    ELSE indexToNode(s, index - 1)
  IN [type |-> IF leftOrigin < 0 THEN "error" ELSE "insert",
      id |-> uid,
      parentID |-> IF leftOrigin < 0 THEN Nil
                   ELSE IF Len(s.rightChildren[leftOrigin]) # 0
                   THEN s.rightChildren[leftOrigin][1]
                   ELSE leftOrigin,
      isLeftChild |-> leftOrigin >= 0 /\ Len(s.rightChildren[leftOrigin]) # 0,
      value |-> char, sender |-> sender, deps |-> deps]

\* insertOne(index, char) up to sendPrimitive: the InsertMessage with the
\* id the runtime's getUID returned, or its error as the type
insertOne(s, index, char, uid, sender, deps) ==
  LET leftOrigin == IF index = 0 THEN RootId
                    ELSE indexToNode(s, index - 1)
      bad == [type |-> "error", id |-> uid, parentID |-> Nil,
              isLeftChild |-> FALSE, value |-> char, sender |-> sender,
              deps |-> deps]
  IN IF leftOrigin < 0 THEN bad
     ELSE IF Len(s.rightChildren[leftOrigin]) # 0
     THEN LET parent == nextNode(s, leftOrigin)
          IN IF parent < 0 THEN bad
             ELSE [type |-> "insert", id |-> uid, parentID |-> parent,
                   isLeftChild |-> TRUE, value |-> char, sender |-> sender,
                   deps |-> deps]
     ELSE [type |-> "insert", id |-> uid, parentID |-> leftOrigin,
           isLeftChild |-> FALSE, value |-> char, sender |-> sender,
           deps |-> deps]

\* deleteOne(index) up to sendPrimitive
deleteOne(s, index, sender, deps) ==
  LET node == indexToNode(s, index)
  IN [type |-> IF node < 0 THEN "error" ELSE "delete",
      id |-> node, parentID |-> Nil, isLeftChild |-> FALSE, value |-> "",
      sender |-> sender, deps |-> deps]

\* ------------------------------------------------------------------------
\* CTextLognGroundTruth: the interleaving tree alone, each node with the
\* count of present nodes in its subtree.  A state is a record of functions
\* over the ids in nodes:
\*   parent, isLeftChild, value, isPresent, leftChildren, rightChildren,
\*   count                       the Node fields
\*   status                      "ok", or "error" once a handler threw
\* ------------------------------------------------------------------------
gt_Init ==
  [nodes |-> {RootId},
   parent |-> (RootId :> Nil),
   isLeftChild |-> (RootId :> FALSE),
   value |-> (RootId :> ""),
   isPresent |-> (RootId :> FALSE),
   leftChildren |-> (RootId :> <<>>),
   rightChildren |-> (RootId :> <<>>),
   count |-> (RootId :> 0),
   status |-> "ok"]

\* get length()
gt_length(s) == s.count[RootId]

\* "Update index metadata.": count += delta on node and its ancestors
RECURSIVE gt_addCount(_, _, _)
gt_addCount(s, ancestor, delta) ==
  IF ancestor = Nil THEN s
  ELSE gt_addCount([s EXCEPT !.count[ancestor] = @ + delta],
                   s.parent[ancestor], delta)

\* "for (const child of children) { if (remaining < child.count) ...;
\* else remaining -= child.count }" from the k-th child on: the child to
\* recurse into (Nil if none) and what remains
RECURSIVE gt_childLoop(_, _, _, _)
gt_childLoop(s, children, k, remaining) ==
  IF k > Len(children) THEN [child |-> Nil, remaining |-> remaining]
  ELSE IF remaining < s.count[children[k]]
  THEN [child |-> children[k], remaining |-> remaining]
  ELSE gt_childLoop(s, children, k + 1, remaining - s.count[children[k]])

\* indexToNode(index): the for (;;) loop, one iteration per call
RECURSIVE gt_indexToNodeLoop(_, _, _)
gt_indexToNodeLoop(s, current, remaining) ==
  LET AfterRight(R) == IF R.child # Nil
                       THEN gt_indexToNodeLoop(s, R.child, R.remaining)
                       ELSE InternalError
      AfterLeft(L) ==
        IF L.child # Nil THEN gt_indexToNodeLoop(s, L.child, L.remaining)
        ELSE IF s.isPresent[current] /\ L.remaining = 0 THEN current
        ELSE AfterRight(gt_childLoop(s, s.rightChildren[current], 1,
                                     IF s.isPresent[current]
                                     THEN L.remaining - 1 ELSE L.remaining))
  IN AfterLeft(gt_childLoop(s, s.leftChildren[current], 1, remaining))

gt_indexToNode(s, index) ==
  IF index < 0 \/ index >= gt_length(s) THEN OutOfBounds
  ELSE gt_indexToNodeLoop(s, RootId, index)

\* "for (const child of children) { if (child === curNode) break;
\* geIndex += child.count }" from the k-th child on
RECURSIVE gt_countBefore(_, _, _, _)
gt_countBefore(s, children, k, curNode) ==
  IF k > Len(children) \/ children[k] = curNode THEN 0
  ELSE s.count[children[k]] + gt_countBefore(s, children, k + 1, curNode)

\* nodeToIndex(node): the while loop
RECURSIVE gt_nodeToIndexLoop(_, _, _)
gt_nodeToIndexLoop(s, curNode, geIndex) ==
  LET curParent == s.parent[curNode] IN
  IF curParent = Nil THEN geIndex
  ELSE gt_nodeToIndexLoop(s, curParent,
         geIndex
         + gt_countBefore(s, s.leftChildren[curParent], 1, curNode)
         + (IF ~s.isLeftChild[curNode]
            THEN gt_countBefore(s, s.rightChildren[curParent], 1, curNode)
                 + (IF s.isPresent[curParent] THEN 1 ELSE 0)
            ELSE 0))

gt_nodeToIndex(s, node) ==
  <<gt_nodeToIndexLoop(s, node,
                       gt_countBefore(s, s.leftChildren[node], 1, Nil)),
    s.isPresent[node]>>

RECURSIVE gt_leftmostDescendant(_, _)
gt_leftmostDescendant(s, node) ==
  IF Len(s.leftChildren[node]) > 0
  THEN gt_leftmostDescendant(s, s.leftChildren[node][1])
  ELSE node

\* toString(): the walk with its stack, as a recursion over the children
\* that have a present node below them
RECURSIVE gt_toStringWalk(_, _), gt_toStringChildren(_, _, _)
gt_toStringChildren(s, children, childIndex) ==
  IF childIndex > Len(children) THEN <<>>
  ELSE (IF s.count[children[childIndex]] > 0
        THEN gt_toStringWalk(s, children[childIndex]) ELSE <<>>)
       \o gt_toStringChildren(s, children, childIndex + 1)

gt_toStringWalk(s, node) ==
  gt_toStringChildren(s, s.leftChildren[node], 1)
    \o (IF s.isPresent[node] THEN <<s.value[node]>> ELSE <<>>)
    \o gt_toStringChildren(s, s.rightChildren[node], 1)

\* toString(): a sequence of characters, or <<InternalError>> for
\* Error("Internal error: toString() has wrong length")
gt_toString(s) ==
  IF Len(gt_toStringWalk(s, RootId)) # gt_length(s) THEN <<InternalError>>
  ELSE gt_toStringWalk(s, RootId)

gt_getPosition(s, index) == gt_indexToNode(s, index)

gt_findPosition(s, position) ==
  IF position \notin s.nodes THEN <<InternalError, FALSE>>
  ELSE gt_nodeToIndex(s, position)

\* insertOne(index, char) up to the message: <<parentID, isLeftChild>>, or
\* <<the error of indexToNode, FALSE>>
gt_insertOne(s, index) ==
  LET Anchor(leftOrigin) ==
        IF leftOrigin < 0 THEN <<leftOrigin, FALSE>>
        ELSE IF Len(s.rightChildren[leftOrigin]) # 0
        THEN <<gt_leftmostDescendant(s, s.rightChildren[leftOrigin][1]), TRUE>>
        ELSE <<leftOrigin, FALSE>>
  IN Anchor(IF index = 0 THEN RootId ELSE gt_indexToNode(s, index - 1))

\* receivePrimitive, case "insert": [s, events]
gt_receiveInsert(s, m) ==
  IF m.parentID \notin s.nodes
  THEN [s |-> [s EXCEPT !.status = "error"], events |-> <<>>]
  ELSE
  LET node == m.id
      parent == m.parentID
      old == IF m.isLeftChild THEN s.leftChildren[parent]
             ELSE s.rightChildren[parent]
      siblings == splice(old, siblingIndex(old, node, 0), node)
      s1 == [s EXCEPT !.nodes = @ \cup {node},
                      !.parent = (node :> parent) @@ @,
                      !.isLeftChild = (node :> m.isLeftChild) @@ @,
                      !.value = (node :> m.value) @@ @,
                      !.isPresent = (node :> TRUE) @@ @,
                      !.leftChildren =
                         (node :> <<>>) @@
                         (IF m.isLeftChild THEN [@ EXCEPT ![parent] = siblings]
                          ELSE @),
                      !.rightChildren =
                         (node :> <<>>) @@
                         (IF m.isLeftChild THEN @
                          ELSE [@ EXCEPT ![parent] = siblings]),
                      !.count = (node :> 0) @@ @]
      Emit(s2) == [s |-> s2,
                   events |-> <<InsertEvent(gt_nodeToIndex(s2, node)[1])>>]
  IN Emit(gt_addCount(s1, node, 1))

\* receivePrimitive, case "delete": [s, events]
gt_receiveDelete(s, m) ==
  IF m.id \notin s.nodes
  THEN [s |-> [s EXCEPT !.status = "error"], events |-> <<>>]
  ELSE IF s.isPresent[m.id]
  THEN [s |-> gt_addCount([s EXCEPT !.isPresent[m.id] = FALSE], m.id, -1),
        events |-> <<DeleteEvent(gt_nodeToIndex(s, m.id)[1], s.value[m.id])>>]
  ELSE [s |-> s, events |-> <<>>]

gt_receivePrimitive(s, m) ==
  IF m.type = "insert" THEN gt_receiveInsert(s, m) ELSE gt_receiveDelete(s, m)

\* The tree-only implementation fed the messages sent from the k-th on:
\* [s, events], the events of all of them in order
RECURSIVE gt_receiveAll(_, _, _)
gt_receiveAll(t, sent, k) ==
  IF k > Len(sent) THEN t
  ELSE LET Next1(res) == gt_receiveAll([s |-> res.s,
                                        events |-> t.events \o res.events],
                                       sent, k + 1)
       IN Next1(gt_receivePrimitive(t.s, sent[k]))

\* ------------------------------------------------------------------------
\* The replicas and the runtime
\* ------------------------------------------------------------------------
VARIABLES
  rep,     \* rep[r]: the CTextLogn of replica r
  msgs,    \* the messages sent so far
  recvd,   \* recvd[r]: the keys of the messages replica r has received
  lastOp,  \* the last public call or delivery
  ref,     \* SpecSingle: the plain string the same edits are applied to
  truth,   \* truth[r]: a CTextLognGroundTruth fed the messages of rep[r]
  salm     \* SpecSALM: the two SplitAppendListManagers given the same calls

vars == <<rep, msgs, recvd, lastOp, ref, truth, salm>>

\* lastOp: kind, r and the arguments of the call (index, str, count); ids,
\* the ids of the messages it sent or delivered; events, what the replica
\* emitted during it; threw, whether the call raised an error; truthEvents,
\* what truth[r] emitted for the same messages
NoOp ==
  [kind |-> "init", r |-> 0, index |-> 0, str |-> <<>>, count |-> 0,
   ids |-> <<>>, events |-> <<>>, threw |-> FALSE, truthEvents |-> <<>>]

Init ==
  /\ rep = [r \in Replicas |-> InitReplica]
  /\ msgs = {}
  /\ recvd = [r \in Replicas |-> {}]
  /\ lastOp = NoOp
  /\ ref = <<>>
  /\ truth = [r \in Replicas |-> gt_Init]
  /\ salm = [avl |-> SalmEmpty, arr |-> arr_Init, splits |-> 0]

InsertMsgs == {m \in msgs : m.type = "insert"}
DeleteMsgs == {m \in msgs : m.type = "delete"}
SentBy(r) == {m \in msgs : m.sender = r}

MinOf(S) == CHOOSE x \in S : \A y \in S : x <= y
MaxOf(S) == CHOOSE x \in S : \A y \in S : x >= y

\* The ids getUID can return for n calls when used are taken.  Ids are only
\* compared between same-side siblings, and two replicas make at most two
\* of them, so drawing each new id below or above all ids so far gives
\* every order of every pair of siblings.
MidId == MaxLocalOps + MaxPeerOps + 1
RECURSIVE getUIDs(_, _)
getUIDs(used, n) ==
  IF n = 0 THEN {<<>>}
  ELSE LET next == IF used = {} THEN {MidId}
                   ELSE {MinOf(used) - 1, MaxOf(used) + 1}
       IN UNION {{<<x>> \o q : q \in getUIDs(used \cup {x}, n - 1)} :
                 x \in next}

\* getUID of a runtime that counts up
RECURSIVE getUIDsSingle(_, _)
getUIDsSingle(used, n) ==
  IF n = 0 THEN {<<>>}
  ELSE {<<Cardinality(used) + 1>> \o q :
          q \in getUIDsSingle(used \cup {Cardinality(used) + 1}, n - 1)}

\* A public call in progress: the replica, the messages it has sent and
\* echoed so far, the events emitted so far, and whether the call threw.
Call(s, got) ==
  [s |-> s, sent |-> <<>>, got |-> got, events |-> <<>>, threw |-> FALSE]

\* sendPrimitive(message): the runtime echoes the message to the sender's
\* receivePrimitive before the call returns
sendPrimitive(c, m) ==
  LET Echo(res) ==
        [s |-> res.s, sent |-> Append(c.sent, m),
         got |-> c.got \cup {Key(m)}, events |-> c.events \o res.events,
         threw |-> FALSE]
  IN Echo(receivePrimitive(c.s, m))

\* insert(index, str) that sends one operation for the call: its loop ends
\* after the first character
insert_once(c, r, index, str, ids, k) ==
  IF k > Len(str) \/ c.s.status # "ok" \/ c.threw THEN c
  ELSE LET m == insertOne(c.s, index + k - 1, str[k], ids[k], r, c.got)
       IN IF m.type = "error" THEN [c EXCEPT !.threw = TRUE]
          ELSE sendPrimitive(c, m)

\* insert(index, str): the for loop from character k on; ids[k] is the id
\* getUID returns for character k
RECURSIVE insert(_, _, _, _, _, _)
insert(c, r, index, str, ids, k) ==
  IF k > Len(str) \/ c.s.status # "ok" \/ c.threw THEN c
  ELSE LET m == insertOne(c.s, index + k - 1, str[k], ids[k], r, c.got)
       IN IF m.type = "error" THEN [c EXCEPT !.threw = TRUE]
          ELSE insert(sendPrimitive(c, m), r, index, str, ids, k + 1)

\* delete(startIndex, count) with the loop running upwards from startIndex
RECURSIVE delete_ascendingLoop(_, _, _, _, _)
delete_ascendingLoop(c, r, startIndex, i, count) ==
  IF i >= count \/ c.s.status # "ok" \/ c.threw THEN c
  ELSE LET m == deleteOne(c.s, startIndex + i, r, c.got)
       IN IF m.type = "error" THEN [c EXCEPT !.threw = TRUE]
          ELSE delete_ascendingLoop(sendPrimitive(c, m), r, startIndex, i + 1,
                                    count)

delete_ascending(c, r, startIndex, i) ==
  delete_ascendingLoop(c, r, startIndex, 0, i + 1)

\* delete(startIndex, count) that passes over the indices past the end
RECURSIVE delete_skipPastEnd(_, _, _, _)
delete_skipPastEnd(c, r, startIndex, i) ==
  IF i < 0 \/ c.s.status # "ok" \/ c.threw THEN c
  ELSE IF startIndex + i >= length(c.s)
  THEN delete_skipPastEnd(c, r, startIndex, i - 1)
  ELSE LET m == deleteOne(c.s, startIndex + i, r, c.got)
       IN IF m.type = "error" THEN [c EXCEPT !.threw = TRUE]
          ELSE delete_skipPastEnd(sendPrimitive(c, m), r, startIndex, i - 1)

\* delete(startIndex, count): the for loop from i down to 0
RECURSIVE delete(_, _, _, _)
delete(c, r, startIndex, i) ==
  IF i < 0 \/ c.s.status # "ok" \/ c.threw THEN c
  ELSE LET m == deleteOne(c.s, startIndex + i, r, c.got)
       IN IF m.type = "error" THEN [c EXCEPT !.threw = TRUE]
          ELSE delete(sendPrimitive(c, m), r, startIndex, i - 1)

Range(q) == {q[k] : k \in 1..Len(q)}

\* The effect of a finished call on the variables.  A call whose handler
\* does not return sends nothing: the runtime never gets control back.
Finish(r, c, op) ==
  LET Fed(t) ==
        /\ truth' = [truth EXCEPT ![r] = t.s]
        /\ lastOp' = [op EXCEPT
                        !.ids = [k \in 1..Len(c.sent) |-> c.sent[k].id],
                        !.events = c.events, !.threw = c.threw,
                        !.truthEvents = t.events]
  IN IF c.s.status = "ok"
     THEN /\ rep' = [rep EXCEPT ![r] = c.s]
          /\ msgs' = msgs \cup Range(c.sent)
          /\ recvd' = [recvd EXCEPT ![r] = c.got]
          /\ Fed(gt_receiveAll([s |-> truth[r], events |-> <<>>], c.sent, 1))
     ELSE /\ rep' = [rep EXCEPT ![r] = Stuck(rep[r], c.s.status)]
          /\ UNCHANGED <<msgs, recvd, truth>>
          /\ lastOp' = op

\* text.insert(index, str) on replica r with a valid index, sending at most
\* budget messages
InsertCall(r, budget, single) ==
  /\ rep[r].status = "ok"
  /\ \E index \in 0..length(rep[r]), n \in 1..MaxStr :
       /\ n <= budget
       /\ \E ids \in IF single
                     THEN getUIDsSingle({m.id : m \in InsertMsgs}, n)
                     ELSE getUIDs({m.id : m \in InsertMsgs}, n) :
            LET str == [k \in 1..n |-> CharOf(ids[k])]
            IN Finish(r,
                      insert(Call(rep[r], recvd[r]), r, index, str, ids, 1),
                      [NoOp EXCEPT !.kind = "insert", !.r = r,
                                   !.index = index, !.str = str])

\* text.delete(startIndex, count) on replica r with a valid range, sending
\* at most budget messages
DeleteCall(r, budget) ==
  /\ rep[r].status = "ok"
  /\ \E count \in 1..MaxStr :
       /\ count <= budget
       /\ \E startIndex \in 0..(length(rep[r]) - count) :
            Finish(r,
                   delete(Call(rep[r], recvd[r]), r, startIndex, count - 1),
                   [NoOp EXCEPT !.kind = "delete", !.r = r,
                                !.index = startIndex, !.count = count])

MaxOps(r) == IF r = 1 THEN MaxLocalOps ELSE MaxPeerOps

LocalInsert(r) ==
  /\ InsertCall(r, MaxOps(r) - Cardinality(SentBy(r)), FALSE)
  /\ UNCHANGED <<ref, salm>>

LocalDelete(r) ==
  /\ DeleteCall(r, MaxOps(r) - Cardinality(SentBy(r)))
  /\ UNCHANGED <<ref, salm>>

\* The effect of delivering m to replica r, res being what receivePrimitive
\* returned; lastOp.str holds the type of the message
Delivered(r, m, res) ==
  LET Fed(t) ==
        /\ truth' = [truth EXCEPT ![r] = t.s]
        /\ lastOp' = [NoOp EXCEPT !.kind = "recv", !.r = r, !.ids = <<m.id>>,
                                  !.str = <<m.type>>, !.events = res.events,
                                  !.threw = res.s.status = "error",
                                  !.truthEvents = t.events]
  IN /\ rep' = [rep EXCEPT ![r] = res.s]
     /\ recvd' = IF res.s.status = "ok"
                 THEN [recvd EXCEPT ![r] = @ \cup {Key(m)}]
                 ELSE recvd
     /\ Fed(IF res.s.status = "ok"
            THEN gt_receiveAll([s |-> truth[r], events |-> <<>>], <<m>>, 1)
            ELSE [s |-> truth[r], events |-> <<>>])

\* The runtime delivers a message of another replica, in causal order
Receive(r) ==
  /\ rep[r].status = "ok"
  /\ \E m \in msgs :
       /\ Key(m) \notin recvd[r]
       /\ m.deps \subseteq recvd[r]
       /\ Delivered(r, m, receivePrimitive(rep[r], m))
       /\ UNCHANGED <<msgs, ref, salm>>

Next == \E r \in Replicas : LocalInsert(r) \/ LocalDelete(r) \/ Receive(r)

Spec == Init /\ [][Next]_vars

\* The edits on a plain string: text.slice(0, i) + str + text.slice(i) and
\* text.slice(0, i) + text.slice(i + count)
InsertAt(text, i, str) ==
  SubSeq(text, 1, i) \o str \o SubSeq(text, i + 1, Len(text))

RemoveAt(text, i, count) ==
  SubSeq(text, 1, i) \o SubSeq(text, i + count + 1, Len(text))

\* One replica with synchronous local echo; the same edit is applied to ref
SingleInsert ==
  /\ InsertCall(1, MaxSingleNodes - Cardinality(InsertMsgs), TRUE)
  /\ ref' = InsertAt(ref, lastOp'.index, lastOp'.str)
  /\ UNCHANGED salm

SingleDelete ==
  /\ DeleteCall(1, MaxSingleDeletes - Cardinality(DeleteMsgs))
  /\ ref' = RemoveAt(ref, lastOp'.index, lastOp'.count)
  /\ UNCHANGED salm

NextSingle == SingleInsert \/ SingleDelete

SpecSingle == Init /\ [][NextSingle]_vars

\* One replica on which a text is typed: each call is
\* text.insert(text.length, ch) with one character
TypingChars == {"h", "e", "l", "o"}

TypeChar ==
  /\ rep[1].status = "ok"
  /\ Len(ref) < MaxTyped
  /\ \E ch \in TypingChars :
       \E ids \in getUIDsSingle({m.id : m \in InsertMsgs}, 1) :
         /\ Finish(1,
                   insert(Call(rep[1], recvd[1]), 1, length(rep[1]), <<ch>>,
                          ids, 1),
                   [NoOp EXCEPT !.kind = "insert", !.r = 1,
                                !.index = length(rep[1]), !.str = <<ch>>])
         /\ ref' = Append(ref, ch)
  /\ UNCHANGED salm

NextTyping == TypeChar

SpecTyping == Init /\ [][NextTyping]_vars

\* Replicas that only insert, one character a call, for longer than in
\* Spec; the ids getUID returns compare in the order they were made
LongOps(r) == IF r = 1 THEN MaxLongOps ELSE MaxLongPeerOps

LongInsert(r) ==
  /\ rep[r].status = "ok"
  /\ Cardinality(SentBy(r)) < LongOps(r)
  /\ Cardinality(msgs) < MaxLongTotal
  /\ \E index \in 0..length(rep[r]) :
       \E ids \in getUIDsSingle({m.id : m \in InsertMsgs}, 1) :
         Finish(r,
                insert(Call(rep[r], recvd[r]), r, index, <<CharOf(ids[1])>>,
                       ids, 1),
                [NoOp EXCEPT !.kind = "insert", !.r = r, !.index = index,
                             !.str = <<CharOf(ids[1])>>])
  /\ UNCHANGED <<ref, salm>>

NextLong == \E r \in Replicas : LongInsert(r) \/ Receive(r)

SpecLong == Init /\ [][NextLong]_vars

\* The benchmark multi: each sender is a new app that types a run of
\* characters, each at the end of its own text, and one app receives the
\* messages of all senders.  rep[2] is the app of the last sender, rep[1] the
\* receiving app; sender p makes the ids (p - 1) * MaxRun + 1, ...
RECURSIVE multi_run(_, _, _, _)
multi_run(c, p, k, n) ==
  IF k > n THEN c
  ELSE multi_run(insert(c, p, length(c.s),
                        <<CharOf((p - 1) * MaxRun + k)>>,
                        <<(p - 1) * MaxRun + k>>, 1),
                 p, k + 1, n)

MultiSender ==
  \E p \in 1..MaxSenders, n \in 1..MaxRun :
    /\ SentBy(p) = {}
    /\ Cardinality(msgs) + n <= MaxMultiTotal
    /\ Finish(2, multi_run(Call(InitReplica, {}), p, 1, n),
              [NoOp EXCEPT !.kind = "insert", !.r = 2, !.count = n])
    /\ UNCHANGED <<ref, salm>>

NextMulti == MultiSender \/ Receive(1)

SpecMulti == Init /\ [][NextMulti]_vars

\* The indices up to MaxBeyond outside lo..hi
Beyond(lo, hi) == ((lo - MaxBeyond)..(lo - 1)) \cup ((hi + 1)..(hi + MaxBeyond))

\* SpecErrors: replica 1 edits, replica 2 only receives
ErrOps(r) == IF r = 1 THEN MaxErrOps ELSE 0

\* text.insert(index, str) on replica r with any index, in 0..length or not
AnyInsert(r) ==
  /\ rep[r].status = "ok"
  /\ \E index \in (0..length(rep[r])) \cup Beyond(0, length(rep[r])),
        n \in 1..MaxStr :
       /\ \/ n <= ErrOps(r) - Cardinality(SentBy(r))
          \/ index \notin 0..length(rep[r])
       /\ \E ids \in getUIDs({m.id : m \in InsertMsgs}, n) :
            Finish(r,
                   insert(Call(rep[r], recvd[r]), r, index,
                          [k \in 1..n |-> CharOf(ids[k])], ids, 1),
                   [NoOp EXCEPT !.kind = "insert", !.r = r, !.index = index,
                                !.str = [k \in 1..n |-> CharOf(ids[k])]])
  /\ UNCHANGED <<ref, salm>>

\* text.delete(startIndex, count) on replica r with any startIndex, in
\* 0..length - count or not (up to MaxBeyond before 0 and past length)
AnyDelete(r) ==
  /\ rep[r].status = "ok"
  /\ \E count \in 1..MaxStr :
       \E startIndex \in (0..length(rep[r])) \cup Beyond(0, length(rep[r])) :
         /\ \/ count <= ErrOps(r) - Cardinality(SentBy(r))
            \/ startIndex > length(rep[r]) - count
         /\ Finish(r, delete(Call(rep[r], recvd[r]), r, startIndex, count - 1),
                   [NoOp EXCEPT !.kind = "delete", !.r = r,
                                !.index = startIndex, !.count = count])
  /\ UNCHANGED <<ref, salm>>

\* text.getPosition(index) on replica r, with any index
GetPosition(r) ==
  /\ rep[r].status = "ok"
  /\ \E index \in (0..(length(rep[r]) - 1))
                   \cup Beyond(0, length(rep[r]) - 1) :
       lastOp' = [NoOp EXCEPT
                    !.kind = "getPosition", !.r = r, !.index = index,
                    !.ids = IF getPosition(rep[r], index) < 0 THEN <<>>
                            ELSE <<getPosition(rep[r], index)>>,
                    !.threw = getPosition(rep[r], index) < 0]
  /\ UNCHANGED <<rep, msgs, recvd, ref, truth, salm>>

\* A network that does not keep the causal order the application promised
\* the runtime (causalityGuaranteed: true): replica r is handed any message
\* it has not had yet
ReceiveAny(r) ==
  /\ rep[r].status = "ok"
  /\ \E m \in msgs :
       /\ Key(m) \notin recvd[r]
       /\ Delivered(r, m, receivePrimitive(rep[r], m))
       /\ UNCHANGED <<msgs, ref, salm>>

NextErrors ==
  \E r \in Replicas :
    AnyInsert(r) \/ AnyDelete(r) \/ GetPosition(r) \/ ReceiveAny(r)

SpecErrors == Init /\ [][NextErrors]_vars

\* The two managers driven by the same calls: create(v) with v fresh,
\* append(e, v) with e known and v fresh, split(v) with v known.  A manager
\* whose call did not return takes no further call.
SalmKnown == DOMAIN salm.arr.listByValue
SalmFresh == Cardinality(SalmKnown) + 1

SalmCreate ==
  /\ salm.avl.st = "ok"
  /\ SalmFresh <= MaxSalmValues
  /\ salm' = [salm EXCEPT !.avl = create(@, SalmFresh),
                          !.arr = arr_create(@, SalmFresh)]
  /\ UNCHANGED <<rep, msgs, recvd, lastOp, ref, truth>>

SalmAppend ==
  /\ salm.avl.st = "ok"
  /\ SalmFresh <= MaxSalmValues
  /\ \E e \in SalmKnown :
       salm' = [salm EXCEPT !.avl = append(@, e, SalmFresh),
                            !.arr = arr_append(@, e, SalmFresh)]
  /\ UNCHANGED <<rep, msgs, recvd, lastOp, ref, truth>>

SalmSplit ==
  /\ salm.avl.st = "ok"
  /\ salm.splits < MaxSalmSplits
  /\ \E v \in SalmKnown :
       salm' = [avl |-> split(salm.avl, v), arr |-> arr_split(salm.arr, v),
                splits |-> salm.splits + 1]
  /\ UNCHANGED <<rep, msgs, recvd, lastOp, ref, truth>>

NextSALM == SalmCreate \/ SalmAppend \/ SalmSplit

SpecSALM == Init /\ [][NextSALM]_vars

\* ------------------------------------------------------------------------
\* The walks the properties are stated with
\* ------------------------------------------------------------------------
\* The walk of printTrueTreeWalk and checkSALMs over the interleaving tree:
\* left children, the node, right children
RECURSIVE trueTreeWalk(_, _), trueTreeWalkChildren(_, _, _)
trueTreeWalkChildren(s, children, childIndex) ==
  IF childIndex > Len(children) THEN <<>>
  ELSE trueTreeWalk(s, children[childIndex])
         \o trueTreeWalkChildren(s, children, childIndex + 1)

trueTreeWalk(s, node) ==
  trueTreeWalkChildren(s, s.leftChildren[node], 1) \o <<node>>
    \o trueTreeWalkChildren(s, s.rightChildren[node], 1)

\* The walk of printBalancedTreeWalk over the balanced index from node;
\* <<Hang>> where the child links do not form a tree
RECURSIVE balancedTreeWalk(_, _, _)
balancedTreeWalk(s, node, fuel) ==
  IF node = Nil THEN <<>>
  ELSE IF fuel = 0 \/ node \notin s.nodes THEN <<Hang>>
  ELSE balancedTreeWalk(s, s.bLeftChild[node], fuel - 1) \o <<node>>
         \o balancedTreeWalk(s, s.bRightChild[node], fuel - 1)

\* The number of nodes on the longest path down from node in the balanced
\* index
RECURSIVE bHeight(_, _, _)
bHeight(s, node, fuel) ==
  IF node = Nil \/ fuel = 0 THEN 0
  ELSE 1 + Max(bHeight(s, s.bLeftChild[node], fuel - 1),
               bHeight(s, s.bRightChild[node], fuel - 1))

RECURSIVE getLeftmostDescendant(_, _)
getLeftmostDescendant(s, node) ==
  IF Len(s.leftChildren[node]) # 0
  THEN getLeftmostDescendant(s, s.leftChildren[node][1])
  ELSE node

RECURSIVE getRightmostDescendant(_, _)
getRightmostDescendant(s, node) ==
  IF Len(s.rightChildren[node]) # 0
  THEN getRightmostDescendant(s,
         s.rightChildren[node][Len(s.rightChildren[node])])
  ELSE node

\* The replicas whose handlers have all returned
Ok == {r \in Replicas : rep[r].status = "ok"}

AllKeys == {Key(m) : m \in msgs}

Concurrent(m1, m2) == Key(m1) \notin m2.deps /\ Key(m2) \notin m1.deps

Tombstones(s) == {n \in s.nodes : n # RootId /\ ~s.isPresent[n]}

\* The nodes of replica r that another replica inserted
RemoteNodes(r) == {m.id : m \in {x \in InsertMsgs : x.sender # r}} \cap rep[r].nodes

\* ------------------------------------------------------------------------
\* Properties
\* ------------------------------------------------------------------------

\* C1 (convergence): two replicas that have received every message sent,
\* in whatever causal orders, return the same toString().
C1_Convergence ==
  \A r1 \in Ok, r2 \in Ok :
    (recvd[r1] = AllKeys /\ recvd[r2] = AllKeys)
      => toString(rep[r1]) = toString(rep[r2])

\* Both replicas have received everything, among it two concurrent inserts
\* (each replica applied its own first) and a delete.
C1_Witness ==
  /\ \A r \in Replicas : rep[r].status = "ok" /\ recvd[r] = AllKeys
  /\ \E m1 \in InsertMsgs, m2 \in InsertMsgs :
       /\ m1.sender # m2.sender
       /\ Concurrent(m1, m2)
       /\ m1.parentID = m2.parentID /\ m1.isLeftChild = m2.isLeftChild
  /\ DeleteMsgs # {}
  /\ Len(toString(rep[1])) >= 2

\* C2 (local insert): after a local insert(index, str) returns, the
\* replica's text is its previous text with str at indices
\* index..index+|str|-1, and its length has grown by |str|.
C2_LocalInsert ==
  [][(lastOp'.kind = "insert" /\ rep'[lastOp'.r].status = "ok")
       => /\ toString(rep'[lastOp'.r])
               = InsertAt(toString(rep[lastOp'.r]), lastOp'.index, lastOp'.str)
          /\ length(rep'[lastOp'.r])
               = length(rep[lastOp'.r]) + Len(lastOp'.str)]_vars

\* A two-character insert has returned on a replica that holds a tombstone
\* and a node of the other replica.
C2_Witness ==
  /\ lastOp.kind = "insert"
  /\ Len(lastOp.str) = 2
  /\ rep[lastOp.r].status = "ok"
  /\ Tombstones(rep[lastOp.r]) # {}
  /\ RemoteNodes(lastOp.r) # {}

\* C3 (local delete): after a local delete(index, count) returns, the
\* replica's text is its previous text without the characters at
\* index..index+count-1; the messages name these nodes from index+count-1
\* down to index.
C3_LocalDelete ==
  [][(lastOp'.kind = "delete" /\ rep'[lastOp'.r].status = "ok")
       => /\ toString(rep'[lastOp'.r])
               = RemoveAt(toString(rep[lastOp'.r]), lastOp'.index,
                          lastOp'.count)
          /\ length(rep'[lastOp'.r]) = length(rep[lastOp'.r]) - lastOp'.count
          /\ lastOp'.ids
               = [k \in 1..lastOp'.count |->
                    indexToNode(rep[lastOp'.r],
                                lastOp'.index + lastOp'.count - k)]]_vars

\* A delete of two characters has returned, one of them a node of the
\* other replica.
C3_Witness ==
  /\ lastOp.kind = "delete"
  /\ lastOp.count = 2
  /\ rep[lastOp.r].status = "ok"
  /\ Len(lastOp.ids) = 2
  /\ Range(lastOp.ids) \cap RemoteNodes(lastOp.r) # {}
  /\ Range(lastOp.ids) \subseteq Tombstones(rep[lastOp.r])

\* C4 (reference replay): on one replica with local echo, after each edit
\* of a sequence of inserts and deletes toString() is the string the same
\* edits give on a plain string.
C4_ReferenceReplay == rep[1].status = "ok" => toString(rep[1]) = ref

\* Edits at the front, in the middle and at the end, and a delete
C4_Witness ==
  /\ rep[1].status = "ok"
  /\ Cardinality(InsertMsgs) >= 5
  /\ DeleteMsgs # {}
  /\ lastOp.kind = "insert" /\ lastOp.index > 0 /\ lastOp.index < Len(ref) - 1
  /\ rep[1].bRootNode # RootId

\* C5 (inorder agreement): the balanced index holds exactly the nodes of
\* the directory, each once, and its inorder walk is the inorder walk of
\* the interleaving tree, tombstones and root included.
C5_InorderAgreement ==
  \A r \in Ok :
    LET walk == balancedTreeWalk(rep[r], rep[r].bRootNode, NodeFuel(rep[r]))
    IN /\ walk = trueTreeWalk(rep[r], RootId)
       /\ Range(walk) = rep[r].nodes
       /\ Len(walk) = Cardinality(rep[r].nodes)

\* A replica whose index was rotated holds a tombstone and two concurrent
\* siblings.
C5_Witness ==
  \E r \in Ok :
    /\ rep[r].bRootNode # RootId
    /\ Tombstones(rep[r]) # {}
    /\ \E n \in rep[r].nodes :
         Len(rep[r].leftChildren[n]) >= 2 \/ Len(rep[r].rightChildren[n]) >= 2

\* The number of present nodes in the subtree of node in the balanced index
RECURSIVE presentCount(_, _, _)
presentCount(s, node, fuel) ==
  IF node = Nil \/ fuel = 0 THEN 0
  ELSE (IF s.isPresent[node] THEN 1 ELSE 0)
         + presentCount(s, s.bLeftChild[node], fuel - 1)
         + presentCount(s, s.bRightChild[node], fuel - 1)

\* C6 (count correctness): after every handler, bCount of every node is
\* the number of present nodes in its subtree of the balanced index.
C6_CountCorrect ==
  \A r \in Ok : \A n \in rep[r].nodes :
    rep[r].bCount[n] = presentCount(rep[r], n, NodeFuel(rep[r]))

\* The last insert handler of a replica that holds a tombstone made a
\* double rotation.
C6_Witness ==
  \E r \in Ok :
    /\ rep[r].lastRotation \in {"RightLeft", "LeftRight"}
    /\ Tombstones(rep[r]) # {}

\* C7 (AVL balance): after any sequence of inserts, the actual heights of
\* the two subtrees of every node of the balanced index differ by at most
\* one.
C7_AVLBalance ==
  \A r \in Ok : \A n \in rep[r].nodes :
    LET hl == bHeight(rep[r], rep[r].bLeftChild[n], NodeFuel(rep[r]))
        hr == bHeight(rep[r], rep[r].bRightChild[n], NodeFuel(rep[r]))
    IN hl - hr \in {-1, 0, 1}

\* C8 (SALM correctness): after every completed handler, for every node n
\* leftSALM.getEnd(n) is n's leftmost descendant and rightSALM.getEnd(n)
\* its rightmost descendant in the interleaving tree.
C8_SALMCorrect ==
  \A r \in Ok : \A n \in rep[r].nodes :
    /\ getEnd(rep[r].leftSALM, n) = getLeftmostDescendant(rep[r], n)
    /\ getEnd(rep[r].rightSALM, n) = getRightmostDescendant(rep[r], n)

\* C9 (index round trip): for every valid index i,
\* nodeToIndex(indexToNode(i)) is (i, true), and so
\* findPosition(getPosition(i)) is (i, true).
C9_IndexRoundTrip ==
  \A r \in Ok : \A i \in 0..(length(rep[r]) - 1) :
    /\ indexToNode(rep[r], i) \in rep[r].nodes
    /\ nodeToIndex(rep[r], indexToNode(rep[r], i)) = <<i, TRUE>>
    /\ findPosition(rep[r], getPosition(rep[r], i)) = <<i, TRUE>>

\* A replica with two present characters, a tombstone between nodes and a
\* rotated index
C9_Witness ==
  \E r \in Ok :
    /\ length(rep[r]) >= 2
    /\ Tombstones(rep[r]) # {}
    /\ rep[r].bRootNode # RootId

\* C10 (position stability): the id getPosition returns for a present
\* character is a node of the directory; it stays one whatever is applied
\* afterwards, denotes the same node, and findPosition accepts it.
C10_PositionStable ==
  [][\A r \in Replicas :
       rep[r].status = "ok" =>
         /\ \A i \in 0..(length(rep[r]) - 1) :
              getPosition(rep[r], i) \in rep[r].nodes \ {RootId}
         /\ \A id \in rep[r].nodes \ {RootId} :
              /\ id \in rep'[r].nodes
              /\ rep'[r].value[id] = rep[r].value[id]
              /\ rep'[r].parent[id] = rep[r].parent[id]
              /\ rep'[r].isLeftChild[id] = rep[r].isLeftChild[id]
              /\ findPosition(rep'[r], id)[1] \in 0..length(rep'[r])]_vars

\* A replica holds a tombstone that a later insert of the other replica
\* was applied next to, and findPosition still resolves its id.
C10_Witness ==
  /\ lastOp.kind = "recv"
  /\ rep[lastOp.r].status = "ok"
  /\ lastOp.ids[1] \in rep[lastOp.r].nodes
  /\ rep[lastOp.r].isPresent[lastOp.ids[1]]
  /\ \E id \in Tombstones(rep[lastOp.r]) :
       /\ findPosition(rep[lastOp.r], id)[2] = FALSE
       /\ findPosition(rep[lastOp.r], id)[1] \in 0..length(rep[lastOp.r])

\* The DeleteMessage for id as a replica receives it
DeleteOf(id) ==
  [type |-> "delete", id |-> id, parentID |-> Nil, isLeftChild |-> FALSE,
   value |-> "", sender |-> 0, deps |-> {}]

\* C11 (tombstone idempotence): delivering delete(id) to a replica on which
\* id is already a tombstone leaves the replica exactly as it was (isPresent,
\* every bCount, both trees, both SALMs), emits no event and raises no
\* error; and on every replica, for every node, applying delete(id) a second
\* time returns the state the first application left, with no event.
C11_TombstoneIdempotent ==
  [][/\ (/\ lastOp'.kind = "recv"
         /\ lastOp'.str = <<"delete">>
         /\ rep[lastOp'.r].status = "ok"
         /\ lastOp'.ids[1] \in Tombstones(rep[lastOp'.r]))
        => /\ rep'[lastOp'.r] = rep[lastOp'.r]
           /\ lastOp'.events = <<>>
           /\ ~lastOp'.threw
     /\ \A r \in Replicas : \A id \in rep'[r].nodes \ {RootId} :
          rep'[r].status = "ok" =>
            receivePrimitive(receivePrimitive(rep'[r], DeleteOf(id)).s,
                             DeleteOf(id))
              = [s |-> receivePrimitive(rep'[r], DeleteOf(id)).s,
                 events |-> <<>>]]_vars

\* A replica that had deleted a character itself has been delivered the
\* other replica's delete of the same character.
C11_Witness ==
  /\ lastOp.kind = "recv"
  /\ lastOp.str = <<"delete">>
  /\ rep[lastOp.r].status = "ok"
  /\ lastOp.events = <<>>
  /\ lastOp.ids[1] \in Tombstones(rep[lastOp.r])
  /\ \E m1 \in DeleteMsgs, m2 \in DeleteMsgs :
       /\ m1.id = lastOp.ids[1] /\ m2.id = lastOp.ids[1]
       /\ m1.sender # m2.sender
       /\ {Key(m1), Key(m2)} \subseteq recvd[lastOp.r]

\* The nodes whose values toString()'s walk pushes, in order: the walk run
\* with every node's id as its value; <<Hang>> if the walk does not end
toStringNodes(s) ==
  toStringWalk([s EXCEPT !.value = [n \in s.nodes |-> n]], s.bRootNode,
               "PARENT", <<>>, 3 * NodeFuel(s))

\* C12 (length): on every replica, length is the number of directory nodes
\* with isPresent (the root sentinel is never present), and toString()
\* returns that many characters, without its wrong-length error.
C12_LengthIsPresentCount ==
  \A r \in Ok :
    /\ ~rep[r].isPresent[RootId]
    /\ length(rep[r]) = Cardinality({n \in rep[r].nodes : rep[r].isPresent[n]})
    /\ Hang \notin Range(toStringNodes(rep[r]))
    /\ Len(toStringNodes(rep[r])) = length(rep[r])
    /\ toString(rep[r]) = [k \in 1..length(rep[r]) |->
                             rep[r].value[toStringNodes(rep[r])[k]]]

\* A replica whose last call was a delete, with characters left, nodes of
\* both replicas and an index whose root is no longer the sentinel
C12_Witness ==
  /\ lastOp.kind = "delete"
  /\ rep[lastOp.r].status = "ok"
  /\ length(rep[lastOp.r]) >= 1
  /\ Cardinality(rep[lastOp.r].nodes) >= 4
  /\ RemoteNodes(lastOp.r) # {}
  /\ rep[lastOp.r].bRootNode # RootId

\* The nodes whose values the tree-only toString() pushes, in order
gt_toStringNodes(s) ==
  gt_toStringWalk([s EXCEPT !.value = [n \in s.nodes |-> n]], RootId)

\* The (parentID, isLeftChild) of the message a local insert at index makes
insertAnchor(s, index) ==
  LET Anchor(m) == <<m.type, m.parentID, m.isLeftChild>>
  IN Anchor(insertOne(s, index, "", 0, 0, {}))

\* C13 (equivalence with the tree-only reference): a CTextLogn and a
\* CTextLognGroundTruth fed the same messages have the same length and
\* toString(), emitted the same events for the last call or delivery,
\* return the same findPosition for every id, and choose the same parent
\* and side for a local insert at every index.
C13_GroundTruthEquivalent ==
  \A r \in Ok :
    /\ truth[r].status = "ok"
    /\ rep[r].nodes = truth[r].nodes
    /\ length(rep[r]) = gt_length(truth[r])
    /\ toStringNodes(rep[r]) = gt_toStringNodes(truth[r])
    /\ Len(toStringNodes(rep[r])) = length(rep[r])
    /\ toString(rep[r]) = gt_toString(truth[r])
    /\ lastOp.r = r => lastOp.events = lastOp.truthEvents
    /\ \A id \in rep[r].nodes :
         findPosition(rep[r], id) = gt_findPosition(truth[r], id)
    /\ \A index \in 0..length(rep[r]) :
         insertAnchor(rep[r], index)
           = <<"insert">> \o gt_insertOne(truth[r], index)

\* A replica that has just emitted a Delete event, holds nodes of both
\* replicas and a rotated index, and would anchor some local insert as a
\* left child
C13_Witness ==
  /\ lastOp.kind \in {"delete", "recv"}
  /\ rep[lastOp.r].status = "ok"
  /\ Len(lastOp.events) >= 1
  /\ lastOp.events[1].type = "Delete"
  /\ RemoteNodes(lastOp.r) # {}
  /\ rep[lastOp.r].bRootNode # RootId
  /\ \E index \in 0..length(rep[lastOp.r]) :
       gt_insertOne(truth[lastOp.r], index)[2]

\* C14 (events): a delivered insert emits exactly one Insert event, count 1,
\* whose startIndex is where the new character stands in the text after the
\* insert; a delivered delete of a present node emits exactly one Delete
\* event, count 1, whose startIndex is where the character stood just
\* before and whose deletedValues is its value; a local insert(index, str)
\* or delete(index, count) emits one such event per character, in the order
\* of its messages.  The index in each event is that of the state the
\* message left.
C14_Events ==
  [][\A r \in Replicas :
       (lastOp'.r = r /\ rep[r].status = "ok" /\ rep'[r].status = "ok") =>
         /\ (lastOp'.kind = "recv" /\ lastOp'.str = <<"insert">>) =>
              /\ Len(lastOp'.events) = 1
              /\ lastOp'.events[1]
                   = InsertEvent(nodeToIndex(rep'[r], lastOp'.ids[1])[1])
              /\ lastOp'.events[1].count = 1
              /\ toString(rep'[r])
                   = InsertAt(toString(rep[r]), lastOp'.events[1].startIndex,
                              <<rep'[r].value[lastOp'.ids[1]]>>)
         /\ (/\ lastOp'.kind = "recv" /\ lastOp'.str = <<"delete">>
             /\ rep[r].isPresent[lastOp'.ids[1]]) =>
              /\ Len(lastOp'.events) = 1
              /\ lastOp'.events[1]
                   = DeleteEvent(nodeToIndex(rep[r], lastOp'.ids[1])[1],
                                 rep[r].value[lastOp'.ids[1]])
              /\ lastOp'.events[1].count = 1
              /\ toString(rep[r])[lastOp'.events[1].startIndex + 1]
                   = lastOp'.events[1].deletedValues
              /\ toString(rep'[r])
                   = RemoveAt(toString(rep[r]), lastOp'.events[1].startIndex, 1)
         /\ lastOp'.kind = "insert" =>
              lastOp'.events
                = [k \in 1..Len(lastOp'.str) |->
                     InsertEvent(lastOp'.index + k - 1)]
         /\ lastOp'.kind = "delete" =>
              lastOp'.events
                = [k \in 1..lastOp'.count |->
                     DeleteEvent(lastOp'.index + lastOp'.count - k,
                                 toString(rep[r])[lastOp'.index
                                                  + lastOp'.count - k + 1])]]_vars

\* A replica has been delivered the other replica's delete of a character
\* that was present and not the first of the text, after inserts of both.
C14_Witness ==
  /\ lastOp.kind = "recv"
  /\ lastOp.str = <<"delete">>
  /\ rep[lastOp.r].status = "ok"
  /\ Len(lastOp.events) = 1
  /\ lastOp.events[1].type = "Delete"
  /\ lastOp.events[1].startIndex >= 1
  /\ RemoteNodes(lastOp.r) # {}
  /\ \E m \in InsertMsgs : m.sender = lastOp.r

\* The ids of the nodes and messages there are
UsedIds == UNION {rep[r].nodes : r \in Replicas} \cup {m.id : m \in msgs}

\* C15 (one operation per character): a call insert(i, s) with a valid
\* index sends exactly Len(s) insert messages, the k-th with a fresh id and
\* the k-th character of s; a call delete(i, k) with a valid range sends
\* exactly k delete messages; nothing else sends.  So the messages of any
\* number of calls are as many as their characters.
C15_OneMessagePerCharacter ==
  [][/\ (lastOp'.kind = "insert" /\ rep'[lastOp'.r].status = "ok") =>
          /\ Cardinality(msgs') = Cardinality(msgs) + Len(lastOp'.str)
          /\ Len(lastOp'.ids) = Len(lastOp'.str)
          /\ \A k \in 1..Len(lastOp'.str) :
               /\ lastOp'.ids[k] \notin UsedIds
               /\ \A j \in 1..(k - 1) : lastOp'.ids[j] # lastOp'.ids[k]
               /\ \E m \in msgs' \ msgs :
                    /\ m.type = "insert" /\ m.sender = lastOp'.r
                    /\ m.id = lastOp'.ids[k]
                    /\ m.value = lastOp'.str[k]
     /\ (lastOp'.kind = "delete" /\ rep'[lastOp'.r].status = "ok") =>
          /\ Cardinality(msgs') = Cardinality(msgs) + lastOp'.count
          /\ \A m \in msgs' \ msgs :
               m.type = "delete" /\ m.sender = lastOp'.r
     /\ lastOp'.kind \notin {"insert", "delete"} => msgs' = msgs]_vars

\* Both replicas have made calls, one of them an insert of two characters,
\* and there are as many messages as characters inserted and deleted.
C15_Witness ==
  /\ lastOp.kind = "insert"
  /\ Len(lastOp.str) = 2
  /\ rep[lastOp.r].status = "ok"
  /\ \A r \in Replicas : SentBy(r) # {}
  /\ DeleteMsgs # {}
  /\ Cardinality(msgs) = MaxLocalOps + MaxPeerOps

\* Two inserts of different replicas, neither of which had received the
\* other
ConcurrentInserts ==
  {p \in InsertMsgs \X InsertMsgs :
     p[1].sender # p[2].sender /\ Concurrent(p[1], p[2])}

\* C16 (concurrent inserts at one place): two replicas in the same state
\* (having received the same messages) anchor a local insert at the same
\* index to the same parent on the same side; and two concurrent inserts
\* under the same parent on the same side stand, on every replica that has
\* received both, in ascending order of their ids, in the sibling list and
\* in the text, whichever was received first.
C16_ConcurrentSiblingsById ==
  /\ \A r1 \in Ok, r2 \in Ok :
       recvd[r1] = recvd[r2] =>
         /\ length(rep[r1]) = length(rep[r2])
         /\ \A index \in 0..length(rep[r1]) :
              insertAnchor(rep[r1], index) = insertAnchor(rep[r2], index)
  /\ \A p \in ConcurrentInserts : \A r \in Ok :
       (/\ p[1].parentID = p[2].parentID
        /\ p[1].isLeftChild = p[2].isLeftChild
        /\ {Key(p[1]), Key(p[2])} \subseteq recvd[r]
        /\ p[1].id < p[2].id) =>
         /\ \E i, j \in 1..Len(trueTreeWalk(rep[r], RootId)) :
              /\ i < j
              /\ trueTreeWalk(rep[r], RootId)[i] = p[1].id
              /\ trueTreeWalk(rep[r], RootId)[j] = p[2].id
         /\ (rep[r].isPresent[p[1].id] /\ rep[r].isPresent[p[2].id]) =>
              nodeToIndex(rep[r], p[1].id)[1] < nodeToIndex(rep[r], p[2].id)[1]

\* Both replicas inserted one character at index 0 of the empty text, each
\* applied its own first and then the other's, and both show the two
\* characters, the one with the smaller id first.
C16_Witness ==
  \E p \in ConcurrentInserts :
    /\ p[1].deps = {} /\ p[2].deps = {}
    /\ p[1].parentID = RootId /\ p[2].parentID = RootId
    /\ ~p[1].isLeftChild /\ ~p[2].isLeftChild
    /\ p[1].id < p[2].id
    /\ \A r \in Replicas :
         /\ rep[r].status = "ok"
         /\ {Key(p[1]), Key(p[2])} \subseteq recvd[r]
         /\ toString(rep[r]) = <<p[1].value, p[2].value>>

\* C17 (bad indices): getPosition(i) with i < 0 or i >= length, and
\* insert(i, s) with s not empty and i < 0 or i > length, raise the
\* index-out-of-bounds error of indexToNode, send no message, emit no event
\* and leave the replica as it was.
C17_BadIndexRejected ==
  [][/\ (/\ lastOp'.kind = "getPosition"
         /\ (lastOp'.index < 0
               \/ lastOp'.index >= length(rep[lastOp'.r]))) =>
          /\ lastOp'.threw
          /\ getPosition(rep[lastOp'.r], lastOp'.index) = OutOfBounds
          /\ lastOp'.events = <<>>
          /\ UNCHANGED <<rep, msgs, recvd, truth>>
     /\ (/\ lastOp'.kind = "insert"
         /\ Len(lastOp'.str) >= 1
         /\ (lastOp'.index < 0
               \/ lastOp'.index > length(rep[lastOp'.r]))) =>
          /\ lastOp'.threw
          /\ indexToNode(rep[lastOp'.r], lastOp'.index - 1) = OutOfBounds
          /\ lastOp'.events = <<>>
          /\ lastOp'.ids = <<>>
          /\ UNCHANGED <<rep, msgs, recvd, truth>>]_vars

\* insert(length + 1, s) with two characters has just thrown on a replica
\* that holds characters and a tombstone.
C17_Witness ==
  /\ lastOp.kind = "insert"
  /\ lastOp.threw
  /\ Len(lastOp.str) = 2
  /\ lastOp.index = length(rep[lastOp.r]) + 1
  /\ length(rep[lastOp.r]) >= 1
  /\ Tombstones(rep[lastOp.r]) # {}

\* C18 as stated (range [0, length - count)): delete(i, k) raises an error
\* whenever i < 0 or i >= length - k.
C18_DeleteRangeExclusive ==
  [][(/\ lastOp'.kind = "delete"
      /\ ~(0 <= lastOp'.index
            /\ lastOp'.index < length(rep[lastOp'.r]) - lastOp'.count))
       => lastOp'.threw]_vars

\* C18 (amended, range [0, length - count]): delete(i, k) raises the
\* index-out-of-bounds error exactly when i < 0 or i > length - k; with
\* i > length - k it does so before anything is sent or changed, and
\* delete(length - k, k) removes the last k characters.
C18_DeleteRangeInclusive ==
  [][lastOp'.kind = "delete" =>
       /\ lastOp'.threw <=>
            (lastOp'.index < 0
              \/ lastOp'.index > length(rep[lastOp'.r]) - lastOp'.count)
       /\ lastOp'.index > length(rep[lastOp'.r]) - lastOp'.count =>
            /\ indexToNode(rep[lastOp'.r], lastOp'.index + lastOp'.count - 1)
                 = OutOfBounds
            /\ lastOp'.events = <<>>
            /\ UNCHANGED <<rep, msgs, recvd, truth>>
       /\ (/\ lastOp'.index >= 0
           /\ lastOp'.index = length(rep[lastOp'.r]) - lastOp'.count) =>
            /\ length(rep'[lastOp'.r]) = lastOp'.index
            /\ toString(rep'[lastOp'.r])
                 = SubSeq(toString(rep[lastOp'.r]), 1, lastOp'.index)]_vars

\* delete(length - 1, 2) has just thrown on a replica with characters.
C18_Witness ==
  /\ lastOp.kind = "delete"
  /\ lastOp.threw
  /\ lastOp.count = 2
  /\ lastOp.index = length(rep[lastOp.r]) - 1
  /\ length(rep[lastOp.r]) >= 2

\* C19 (unknown ids): a delivered insert whose parentID is not in the
\* directory, and a delivered delete whose id is not in the directory,
\* raise an error and emit no event.
C19_UnknownIdFatal ==
  [][\A m \in msgs :
       (/\ lastOp'.kind = "recv"
        /\ lastOp'.ids = <<m.id>>
        /\ lastOp'.str = <<m.type>>
        /\ rep[lastOp'.r].status = "ok"
        /\ \/ m.type = "insert" /\ m.parentID \notin rep[lastOp'.r].nodes
           \/ m.type = "delete" /\ m.id \notin rep[lastOp'.r].nodes) =>
         /\ lastOp'.threw
         /\ rep'[lastOp'.r].status = "error"
         /\ lastOp'.events = <<>>]_vars

\* Replica 2 has been handed an insert under a parent it had not received.
C19_Witness ==
  /\ lastOp.kind = "recv"
  /\ lastOp.str = <<"insert">>
  /\ lastOp.threw
  /\ lastOp.events = <<>>
  /\ rep[lastOp.r].status = "error"
  /\ \E m \in InsertMsgs :
       /\ m.id = lastOp.ids[1]
       /\ m.parentID # RootId
       /\ \A d \in m.deps : d \notin recvd[lastOp.r]

\* C20 (the AVL manager refines the array manager): after any sequence of
\* create(v) on fresh values, append(e, v) with e known and v fresh, and
\* split(v) with v known, all of which returned, getEnd(x) returns the same
\* value in both implementations for every known x.
C20_SALMRefinement ==
  salm.avl.st = "ok" =>
    \A x \in SalmKnown : getEnd(salm.avl, x) = arr_getEnd(salm.arr, x)

\* The height of the tree below n by its child links (bHeight is the stored
\* one); Hang if the links do not form a tree
RECURSIVE salm_actualHeight(_, _, _)
salm_actualHeight(h, n, fuel) ==
  IF n = Nil THEN -1
  ELSE IF fuel = 0 THEN Hang
  ELSE LET l == salm_actualHeight(h, h.left[n], fuel - 1)
           r == salm_actualHeight(h, h.right[n], fuel - 1)
       IN IF l = Hang \/ r = Hang THEN Hang ELSE 1 + Max(l, r)

\* C21 (every list is an AVL tree): after any sequence of create, append and
\* split that returned, the actual heights of the two subtrees of every node
\* of the AVL manager differ by at most 1.
C21_SALMBalanced ==
  salm.avl.st = "ok" =>
    \A n \in DOMAIN salm.avl.par :
      LET l == salm_actualHeight(salm.avl, salm.avl.left[n], Fuel(salm.avl))
          r == salm_actualHeight(salm.avl, salm.avl.right[n], Fuel(salm.avl))
      IN l # Hang /\ r # Hang /\ l - r \in {-1, 0, 1}

Hello == <<"h", "e", "l", "l", "o">>

\* C22 as stated (simple append): after "hello" is typed one character at a
\* time on an empty replica, length is 5, toString() is "hello", and in the
\* balanced index each of the 5 nodes is the right child of the prior node.
C22_HelloIndexChain ==
  ref = Hello =>
    /\ rep[1].status = "ok"
    /\ length(rep[1]) = 5
    /\ toString(rep[1]) = Hello
    /\ rep[1].nodes = 0..5
    /\ \A n \in 1..5 : /\ rep[1].bParent[n] = n - 1
                        /\ rep[1].bRightChild[n - 1] = n

\* C22 (amended): after "hello" is typed one character at a time on an
\* empty replica, length is 5 and toString() is "hello"; in the interleaving
\* tree each of the 5 nodes is the only right child of the prior node (the
\* first of the root) and no node has a left child; the balanced index holds
\* the root and the 5 nodes in that order, rebalanced into 3 levels.
C22_HelloScenario ==
  ref = Hello =>
    /\ rep[1].status = "ok"
    /\ length(rep[1]) = 5
    /\ toString(rep[1]) = Hello
    /\ rep[1].nodes = 0..5
    /\ \A n \in 1..5 : /\ rep[1].parent[n] = n - 1
                        /\ ~rep[1].isLeftChild[n]
                        /\ rep[1].rightChildren[n - 1] = <<n>>
    /\ \A n \in 0..5 : rep[1].leftChildren[n] = <<>>
    /\ rep[1].rightChildren[5] = <<>>
    /\ balancedTreeWalk(rep[1], rep[1].bRootNode, NodeFuel(rep[1]))
         = <<0, 1, 2, 3, 4, 5>>
    /\ bHeight(rep[1], rep[1].bRootNode, NodeFuel(rep[1])) = 3

\* "hello" has just been typed.
C22_Witness ==
  /\ ref = Hello
  /\ lastOp.kind = "insert"
  /\ lastOp.str = <<"o">>
  /\ lastOp.index = 4
  /\ rep[1].status = "ok"

\* C23 (time bound of the local operations), its consequence for insert:
\* every local insert returns.
C23_LocalInsertReturns ==
  lastOp.kind = "insert" => rep[lastOp.r].status = "ok"

\* C24 (insertion anchor): on every replica and for every index i in
\* 0..length, with L the root if i = 0 and otherwise the present node at
\* index i - 1, the message insertOne(i, ch) builds has parentID = L and
\* isLeftChild = false when L has no right children, and otherwise
\* parentID = nextNode(L) and isLeftChild = true, where nextNode(L) is found
\* and has no left children in the interleaving tree.
C24_InsertionAnchor ==
  \A r \in Ok : \A i \in 0..length(rep[r]) :
    LET L == IF i = 0 THEN RootId ELSE indexToNode(rep[r], i - 1)
        m == insertOne(rep[r], i, "x", 0, r, {})
    IN /\ L >= 0
       /\ i > 0 => L = toStringNodes(rep[r])[i] /\ rep[r].isPresent[L]
       /\ m.type = "insert"
       /\ IF rep[r].rightChildren[L] = <<>>
          THEN m.parentID = L /\ ~m.isLeftChild
          ELSE /\ nextNode(rep[r], L) >= 0
               /\ m.parentID = nextNode(rep[r], L)
               /\ m.isLeftChild
               /\ rep[r].leftChildren[m.parentID] = <<>>

\* A local insert has just sent a message that is a left child of a node
\* the other replica inserted, which is not a child of the left origin.
C24_Witness ==
  /\ lastOp.kind = "insert"
  /\ rep[lastOp.r].status = "ok"
  /\ lastOp.index > 0
  /\ \E m \in InsertMsgs :
       /\ m.id = lastOp.ids[1]
       /\ m.isLeftChild
       /\ m.parentID \in RemoteNodes(lastOp.r)
       /\ rep[lastOp.r].parent[m.parentID]
            # rep[lastOp.r].parent[m.id]

\* C25 (sibling order): on every replica, every node but the root is exactly
\* once in the children list of its parent on its own side and in no other
\* list, the root is in none, and every leftChildren and rightChildren list
\* is strictly ascending by id.
C25_SiblingOrder ==
  \A r \in Ok :
    LET s == rep[r]
        Ascending(q) == \A j, k \in 1..Len(q) : j < k => q[j] < q[k]
        Times(q, n) == Cardinality({k \in 1..Len(q) : q[k] = n})
    IN /\ \A n \in s.nodes \ {RootId} :
            /\ s.parent[n] \in s.nodes
            /\ Times(IF s.isLeftChild[n] THEN s.leftChildren[s.parent[n]]
                     ELSE s.rightChildren[s.parent[n]], n) = 1
       /\ \A p \in s.nodes :
            /\ Ascending(s.leftChildren[p])
            /\ Ascending(s.rightChildren[p])
            /\ \A k \in 1..Len(s.leftChildren[p]) :
                 LET n == s.leftChildren[p][k]
                 IN n \in s.nodes \ {RootId}
                    /\ s.parent[n] = p /\ s.isLeftChild[n]
            /\ \A k \in 1..Len(s.rightChildren[p]) :
                 LET n == s.rightChildren[p][k]
                 IN n \in s.nodes \ {RootId}
                    /\ s.parent[n] = p /\ ~s.isLeftChild[n]

\* A replica has just received an insert whose node went in front of a
\* sibling it had inserted itself before.
C25_Witness ==
  /\ lastOp.kind = "recv"
  /\ lastOp.str = <<"insert">>
  /\ rep[lastOp.r].status = "ok"
  /\ \E p \in rep[lastOp.r].nodes :
       LET q == rep[lastOp.r].rightChildren[p] \o rep[lastOp.r].leftChildren[p]
       IN \E k \in 1..(Len(q) - 1) :
            /\ q[k] = lastOp.ids[1]
            /\ q[k + 1] \notin RemoteNodes(lastOp.r)
            /\ rep[lastOp.r].isLeftChild[q[k]]
                 = rep[lastOp.r].isLeftChild[q[k + 1]]

\* C26 (monotonic lifecycle): a node in the directory of a replica stays in
\* it in every later state with the same value, parent and side; a node
\* that enters the directory is present; a node that is not present never
\* becomes present again.
C26_LifecycleMonotonic ==
  [][\A r \in Replicas :
       /\ \A n \in rep[r].nodes :
            /\ n \in rep'[r].nodes
            /\ rep'[r].value[n] = rep[r].value[n]
            /\ rep'[r].parent[n] = rep[r].parent[n]
            /\ rep'[r].isLeftChild[n] = rep[r].isLeftChild[n]
            /\ ~rep[r].isPresent[n] => ~rep'[r].isPresent[n]
       /\ \A n \in rep'[r].nodes \ rep[r].nodes :
            rep'[r].isPresent[n]]_vars

\* A replica has just received a delete of a node that it had already
\* deleted itself.
C26_Witness ==
  /\ lastOp.kind = "recv"
  /\ lastOp.str = <<"delete">>
  /\ lastOp.events = <<>>
  /\ rep[lastOp.r].status = "ok"
  /\ ~rep[lastOp.r].isPresent[lastOp.ids[1]]
  /\ \E m \in DeleteMsgs : m.id = lastOp.ids[1] /\ m.sender = lastOp.r

\* case "insert" up to "siblings.splice(i, 0, node)": the replica as
\* getNeighbor finds it
spliced(s, m) ==
  LET old == IF m.isLeftChild THEN s.leftChildren[m.parentID]
             ELSE s.rightChildren[m.parentID]
      siblings == splice(old, siblingIndex(old, m.id, 0), m.id)
  IN [s EXCEPT !.nodes = @ \cup {m.id},
               !.parent = (m.id :> m.parentID) @@ @,
               !.isLeftChild = (m.id :> m.isLeftChild) @@ @,
               !.value = (m.id :> m.value) @@ @,
               !.isPresent = (m.id :> TRUE) @@ @,
               !.leftChildren =
                  (m.id :> <<>>) @@
                  (IF m.isLeftChild THEN [@ EXCEPT ![m.parentID] = siblings]
                   ELSE @),
               !.rightChildren =
                  (m.id :> <<>>) @@
                  (IF m.isLeftChild THEN @
                   ELSE [@ EXCEPT ![m.parentID] = siblings]),
               !.bParent = (m.id :> Nil) @@ @,
               !.bLeftChild = (m.id :> Nil) @@ @,
               !.bRightChild = (m.id :> Nil) @@ @,
               !.bF = (m.id :> 0) @@ @,
               !.bCount = (m.id :> 0) @@ @]

\* C27 (getNeighbor): when an insert message is applied - a delivered one,
\* or the echo of a local insert of one character - getNeighbor, called
\* after the splice, returns one neighbour and null: for a right child the
\* node just before the new node, for a left child the node just after it,
\* in the in-order walk of the interleaving tree with its tombstones.
C27_NeighborIsAdjacent ==
  [][\A m \in msgs' :
       (/\ \/ lastOp'.kind = "recv" /\ lastOp'.str = <<"insert">>
           \/ lastOp'.kind = "insert" /\ ~lastOp'.threw
        /\ lastOp'.ids = <<m.id>>
        /\ m.type = "insert"
        /\ rep[lastOp'.r].status = "ok"
        /\ m.parentID \in rep[lastOp'.r].nodes) =>
         LET s1 == spliced(rep[lastOp'.r], m)
             siblings == IF m.isLeftChild THEN s1.leftChildren[m.parentID]
                         ELSE s1.rightChildren[m.parentID]
             i == siblingIndex(siblings, m.id, 0) - 1
             nb == getNeighbor(s1, m.id, siblings, i)
             walk == trueTreeWalk(s1, RootId)
             k == CHOOSE j \in 1..Len(walk) : walk[j] = m.id
         IN IF m.isLeftChild
            THEN nb[1] = Nil /\ k < Len(walk) /\ nb[2] = walk[k + 1]
            ELSE nb[2] = Nil /\ k > 1 /\ nb[1] = walk[k - 1]]_vars

\* C28 (findPosition): on every replica and for every directory node n,
\* present or not, findPosition(n.id) is (g, n.isPresent) with g the number
\* of present nodes before n in the in-order walk of the interleaving tree.
C28_FindPosition ==
  \A r \in Ok : \A n \in rep[r].nodes :
    LET walk == trueTreeWalk(rep[r], RootId)
        k == CHOOSE j \in 1..Len(walk) : walk[j] = n
        g == Cardinality({j \in 1..(k - 1) : rep[r].isPresent[walk[j]]})
    IN findPosition(rep[r], n) = <<g, rep[r].isPresent[n]>>

\* A replica holds a tombstone and has just received an insert that went
\* before it, after which two present nodes are before the tombstone.
C28_Witness ==
  /\ lastOp.kind = "recv"
  /\ lastOp.str = <<"insert">>
  /\ rep[lastOp.r].status = "ok"
  /\ \E n \in Tombstones(rep[lastOp.r]) :
       /\ findPosition(rep[lastOp.r], n) = <<2, FALSE>>
       /\ findPosition(rep[lastOp.r], lastOp.ids[1])[1] < 2
       /\ findPosition(rep[lastOp.r], lastOp.ids[1])[2]

\* node and the nodes above it in the balanced index
RECURSIVE bAncestors(_, _, _)
bAncestors(s, node, fuel) ==
  IF node = Nil \/ fuel = 0 THEN {}
  ELSE {node} \cup bAncestors(s, s.bParent[node], fuel - 1)

\* C29 (a received delete changes no structure): the delivery of a delete
\* of a present node leaves the replica as it was but for the target's
\* isPresent, now false, and the bCount of the target and of each of its
\* ancestors in the balanced index, each less by 1; the delivery of a
\* delete of a node that is not present leaves the replica as it was.
C29_DeleteFrame ==
  [][(/\ lastOp'.kind = "recv"
      /\ lastOp'.str = <<"delete">>
      /\ rep[lastOp'.r].status = "ok"
      /\ lastOp'.ids[1] \in rep[lastOp'.r].nodes) =>
       LET s == rep[lastOp'.r]
           n == lastOp'.ids[1]
           above == bAncestors(s, n, NodeFuel(s))
       IN rep'[lastOp'.r] =
            IF s.isPresent[n]
            THEN [s EXCEPT !.isPresent[n] = FALSE,
                           !.bCount = [x \in DOMAIN s.bCount |->
                                         IF x \in above THEN s.bCount[x] - 1
                                         ELSE s.bCount[x]]]
            ELSE s]_vars

\* A replica has just received a delete of a present node that is neither
\* the top of the balanced index nor a child of the top.
C29_Witness ==
  /\ lastOp.kind = "recv"
  /\ lastOp.str = <<"delete">>
  /\ Len(lastOp.events) = 1
  /\ rep[lastOp.r].status = "ok"
  /\ Cardinality(bAncestors(rep[lastOp.r], lastOp.ids[1],
                            NodeFuel(rep[lastOp.r]))) >= 3

\* The values of the list tree below n, in order, by its child links;
\* <<Hang>> where the links do not form a tree
RECURSIVE salm_walk(_, _, _)
salm_walk(h, n, fuel) ==
  IF n = Nil THEN <<>>
  ELSE IF fuel = 0 THEN <<Hang>>
  ELSE salm_walk(h, h.left[n], fuel - 1) \o <<n>>
         \o salm_walk(h, h.right[n], fuel - 1)

\* C30 (spine lists): on every replica whose handlers returned, taking as
\* the lists of a manager the trees its child links form, each directory
\* node is in exactly one leftSALM list and exactly one rightSALM list,
\* once; in a leftSALM list each element after the first is leftChildren[0]
\* of the element before it, and in a rightSALM list each element after the
\* first is the last entry of rightChildren of the element before it.
C30_SpineLists ==
  \A r \in Ok :
    LET s == rep[r]
        Lists(h) ==
          {salm_walk(h, n, Fuel(h)) :
             n \in {x \in DOMAIN h.par :
                      \A p \in DOMAIN h.par :
                        h.left[p] # x /\ h.right[p] # x}}
        Spines(h, left) ==
          /\ DOMAIN h.par = s.nodes
          /\ \A n \in s.nodes :
               Cardinality({q \in Lists(h) :
                              \E k \in 1..Len(q) : q[k] = n}) = 1
          /\ \A q \in Lists(h) :
               /\ \A j, k \in 1..Len(q) : q[j] = q[k] => j = k
               /\ \A k \in 2..Len(q) :
                    /\ q[k - 1] \in s.nodes
                    /\ IF left
                       THEN /\ s.leftChildren[q[k - 1]] # <<>>
                            /\ q[k] = s.leftChildren[q[k - 1]][1]
                       ELSE /\ s.rightChildren[q[k - 1]] # <<>>
                            /\ q[k] = s.rightChildren[q[k - 1]]
                                        [Len(s.rightChildren[q[k - 1]])]
    IN Spines(s.leftSALM, TRUE) /\ Spines(s.rightSALM, FALSE)

\* A replica has just received an insert that became the last right child
\* of the root, whose list was split: the root's rightSALM tree holds the
\* root and the new node, and another tree holds three nodes.
C30_Witness ==
  /\ lastOp.kind = "recv"
  /\ lastOp.str = <<"insert">>
  /\ rep[lastOp.r].status = "ok"
  /\ LET h == rep[lastOp.r].rightSALM
     IN /\ \E n \in DOMAIN h.par :
             /\ \A p \in DOMAIN h.par : h.left[p] # n /\ h.right[p] # n
             /\ salm_walk(h, n, Fuel(h)) = <<RootId, lastOp.ids[1]>>
        /\ \E n \in DOMAIN h.par :
             /\ \A p \in DOMAIN h.par : h.left[p] # n /\ h.right[p] # n
             /\ Len(salm_walk(h, n, Fuel(h))) = 3

\* C31 (stored heights are exact): after any sequence of create, append and
\* split that returned, the bHeight of every node of the AVL manager is the
\* height of the tree below it, a leaf having height 0.
C31_SALMHeightsExact ==
  salm.avl.st = "ok" =>
    \A n \in DOMAIN salm.avl.par :
      salm.avl.ht[n] = salm_actualHeight(salm.avl, n, Fuel(salm.avl))

\* After a split, a list of five values has a root of height 2, which only
\* rotations produce.
C31_Witness ==
  /\ salm.avl.st = "ok"
  /\ salm.splits >= 1
  /\ \E n \in DOMAIN salm.avl.par :
       /\ salm.avl.par[n] = Nil
       /\ salm.avl.ht[n] = 2
       /\ Len(salm_walk(salm.avl, n, Fuel(salm.avl))) >= 5

\* C32 (stored balance factors are exact): on every replica whose handlers
\* returned, the bF of every node of the balanced index is -1, 0 or 1 and
\* equals the height of its right subtree minus the height of its left
\* subtree.
C32_BalanceFactorsExact ==
  \A r \in Ok : \A n \in rep[r].nodes :
    /\ rep[r].bF[n] \in {-1, 0, 1}
    /\ rep[r].bF[n] =
         bHeight(rep[r], rep[r].bRightChild[n], NodeFuel(rep[r]))
         - bHeight(rep[r], rep[r].bLeftChild[n], NodeFuel(rep[r]))

\* C33 (order stability): two nodes that a replica holds stand in the same
\* order, in the inorder of the interleaving tree and in the inorder of the
\* balanced index, after every further step of that replica; and they stand
\* in that order on every other replica that holds both.  The replicas are
\* those whose handlers returned.
C33_OrderStable ==
  [][LET Before(q, x, y) ==
           \E i, j \in 1..Len(q) : i < j /\ q[i] = x /\ q[j] = y
         Same(s, t) ==
           LET Agree(qs, qt) ==
                 \A x, y \in s.nodes \cap t.nodes :
                   Before(qs, x, y) <=> Before(qt, x, y)
           IN /\ Agree(trueTreeWalk(s, RootId), trueTreeWalk(t, RootId))
              /\ Agree(balancedTreeWalk(s, s.bRootNode, NodeFuel(s)),
                       balancedTreeWalk(t, t.bRootNode, NodeFuel(t)))
     IN /\ \A r \in Replicas :
             (rep[r].status = "ok" /\ rep'[r].status = "ok") =>
               /\ rep[r].nodes \subseteq rep'[r].nodes
               /\ Same(rep[r], rep'[r])
        /\ (rep'[1].status = "ok" /\ rep'[2].status = "ok") =>
             Same(rep'[1], rep'[2])]_vars

\* Both replicas hold two concurrent siblings, which they received in
\* opposite orders, and a tombstone.
C33_Witness ==
  /\ \A r \in Replicas : rep[r].status = "ok" /\ Tombstones(rep[r]) # {}
  /\ \E p \in ConcurrentInserts :
       /\ p[1].parentID = p[2].parentID
       /\ p[1].isLeftChild = p[2].isLeftChild
       /\ \A r \in Replicas : {p[1].id, p[2].id} \subseteq rep[r].nodes

\* The ids of the run of sender p, in typing order
RunOf(p) ==
  [k \in 1..Cardinality(SentBy(p)) |-> (p - 1) * MaxRun + k]

\* C34 (concurrent runs do not interleave): the receiving app's handlers
\* return, and once it has received every message, each sender's run stands
\* in its text as one block, in typing order, and the blocks stand in
\* ascending order of the ids of their first characters.
C34_RunsContiguous ==
  /\ rep[1].status = "ok"
  /\ (\A m \in msgs : Key(m) \in recvd[1]) =>
       LET text == toStringNodes(rep[1])
           Pos(id) == CHOOSE i \in 1..Len(text) : text[i] = id
       IN /\ Len(text) = Cardinality(msgs)
          /\ Range(text) = {m.id : m \in msgs}
          /\ \A p \in 1..MaxSenders :
               \A k \in 2..Len(RunOf(p)) :
                 Pos(RunOf(p)[k]) = Pos(RunOf(p)[k - 1]) + 1
          /\ \A p, q \in 1..MaxSenders :
               (SentBy(p) # {} /\ SentBy(q) # {} /\ RunOf(p)[1] < RunOf(q)[1])
                 => Pos(RunOf(p)[1]) < Pos(RunOf(q)[1])

\* C35 (parent links of the lists are well formed): after any sequence of
\* create, append and split, no call has failed to return, every node that
\* is no node's child has bParent null, and following bParent from any node
\* ends, at the root of the tree that holds the node.
C35_SALMParentsWellFormed ==
  /\ salm.avl.st # "hang"
  /\ salm.avl.st = "ok" =>
       LET h == salm.avl
           Root(v) == salm_root(h, v, Fuel(h))
       IN \A v \in DOMAIN h.par :
            /\ (\A p \in DOMAIN h.par : h.left[p] # v /\ h.right[p] # v)
                 => h.par[v] = Nil
            /\ Root(v) # Hang
            /\ v \in Range(salm_walk(h, Root(v), Fuel(h)))

\* C36 (the links of the balanced index are consistent): on every replica
\* whose handlers returned, bRootNode is the only node with bParent null,
\* the walk of the index from bRootNode holds every directory node, each
\* child of a node has that node as bParent, and no node is a child of two
\* nodes or the left and the right child of one.
C36_IndexLinksConsistent ==
  \A r \in Ok :
    LET s == rep[r]
        Children(p) == {s.bLeftChild[p], s.bRightChild[p]} \ {Nil}
    IN /\ {n \in s.nodes : s.bParent[n] = Nil} = {s.bRootNode}
       /\ Range(balancedTreeWalk(s, s.bRootNode, NodeFuel(s))) = s.nodes
       /\ \A p \in s.nodes :
            /\ Children(p) \subseteq s.nodes
            /\ \A c \in Children(p) : s.bParent[c] = p
            /\ s.bLeftChild[p] # Nil => s.bLeftChild[p] # s.bRightChild[p]
       /\ \A p, q \in s.nodes : p # q => Children(p) \cap Children(q) = {}

\* The last insert handler of a replica made a double rotation below the
\* root of the index, so that rebalance reattached the rotated subtree to
\* a node.
C36_Witness ==
  \E r \in Ok :
    /\ rep[r].lastRotation \in {"RightLeft", "LeftRight"}
    /\ lastOp.r = r
    /\ \E n \in rep[r].nodes :
         /\ rep[r].bF[n] = 0
         /\ rep[r].bLeftChild[n] # Nil /\ rep[r].bRightChild[n] # Nil
         /\ rep[r].bParent[n] # Nil
         /\ n = IF lastOp.ids = <<>> THEN Nil
                ELSE LET new == lastOp.ids[Len(lastOp.ids)]
                     IN IF rep[r].bLeftChild[new] = Nil
                           /\ rep[r].bRightChild[new] = Nil
                        THEN rep[r].bParent[rep[r].bParent[new]]
                        ELSE new

\* C37 (a failing delete is atomic): a call delete(i, k) that raises the
\* index-out-of-bounds error has sent no message and has left the text as
\* it was.
C37_FailingDeleteAtomic ==
  [][(lastOp'.kind = "delete" /\ lastOp'.threw) =>
       /\ lastOp'.ids = <<>>
       /\ msgs' = msgs
       /\ toString(rep'[lastOp'.r]) = toString(rep[lastOp'.r])]_vars

\* C38 (a failing insert message changes nothing): when the handler of a
\* delivered insert whose parentID is not in the directory has raised its
\* error, the directory has no entry for the id of the message, and the
\* nodes, both trees and both managers are as they were before it.
C38_UnknownParentUnchanged ==
  [][\A m \in InsertMsgs :
       (/\ lastOp'.kind = "recv"
        /\ lastOp'.ids = <<m.id>>
        /\ lastOp'.str = <<"insert">>
        /\ rep[lastOp'.r].status = "ok"
        /\ m.parentID \notin rep[lastOp'.r].nodes) =>
         /\ m.id \notin rep'[lastOp'.r].nodes
         /\ [rep'[lastOp'.r] EXCEPT !.status = "ok"] = rep[lastOp'.r]]_vars

\* C39 (root sentinel): no message names the root as the node to delete or
\* as the parent of a left child; and on every replica whose handlers
\* returned the root is not present, has no left children, is the first
\* node of the inorder of the interleaving tree and of the inorder of the
\* balanced index, and a delete message naming the root changes nothing and
\* emits nothing.
C39_RootSentinel ==
  /\ \A m \in DeleteMsgs : m.id # RootId
  /\ \A m \in InsertMsgs : ~(m.parentID = RootId /\ m.isLeftChild)
  /\ \A r \in Ok :
       /\ ~rep[r].isPresent[RootId]
       /\ rep[r].leftChildren[RootId] = <<>>
       /\ trueTreeWalk(rep[r], RootId)[1] = RootId
       /\ balancedTreeWalk(rep[r], rep[r].bRootNode, NodeFuel(rep[r]))[1]
            = RootId
       /\ receiveDelete(rep[r],
                        [type |-> "delete", id |-> RootId, parentID |-> Nil,
                         isLeftChild |-> FALSE, value |-> "", sender |-> r,
                         deps |-> recvd[r]])
            = [s |-> rep[r], events |-> <<>>]

\* The first character of a text has just been deleted on a replica whose
\* index has another node than the root at its top; that character had
\* been inserted at index 0 before another, as a left child.
C39_Witness ==
  /\ lastOp.kind = "delete"
  /\ lastOp.index = 0
  /\ rep[lastOp.r].status = "ok"
  /\ rep[lastOp.r].bRootNode # RootId
  /\ length(rep[lastOp.r]) >= 1
  /\ \E m \in InsertMsgs : m.isLeftChild /\ lastOp.ids = <<m.id>>

====
